---- MODULE Spec2Model ----
(***************************************************************************)
(* A model of tsight-agent: the regex filter policy (src/filters.rs), the  *)
(* ClickHouse executor's filter decisions, schema discovery and row        *)
(* scrubber (src/executors/clickhouse_source.rs) and the job agent that    *)
(* runs a job query and submits its rows (src/agent).                      *)
(*                                                                         *)
(* Strings are sequences of one-character strings.  Option<T> is a         *)
(* sequence of length 0 (None) or 1 (Some).  Result<T, E> is a record      *)
(* with the field ok.                                                      *)
(***************************************************************************)
EXTENDS Integers, Sequences, FiniteSets, Bags, TLC

VARIABLES
    global_filters,   \* Config.global_filters: Option<GlobalFilters>
    filter_config,    \* the executor's FilterConfig (Result of with_global_filters), or NotBuilt
    query,            \* the last should_exclude_* call and what it returned
    scrub_in,         \* the rows handed to filter_job_results
    scrub_out,        \* Option: the rows filter_job_results returned
    scrub_again,      \* Option: what filter_job_results returned for those rows in turn
    pc,               \* where the agent's process_next is
    request,          \* Option<AcquireResultBody>: the acquired task or job
    fetched,          \* Option: the rows the store returned for the query
    result,           \* the Result of process_job
    sent,             \* the submissions the agent posted to the server, in order
    ret,              \* Option: what process_next returned
    is_high_priority_queue, \* the flag of the observation agent whose process_next runs
    acquire_request,  \* Option<AcquireRequest>: the body posted to /tasks/acquire
    store,            \* the store's table listing of each database
    dpc,              \* where discover_schemas is
    databases,        \* discover_schemas: the filtered database list
    db_index,         \* discover_schemas: the database the loop is at
    tasks,            \* discover_tables: the spawned per-table tasks, in spawn order
    joined,           \* discover_tables: how many of the tasks were awaited
    finished,         \* discover_tables: the tasks that ran to their end, in that order
    table_schemas,    \* discover_tables: the schemas pushed so far
    schemas,          \* discover_schemas: the schemas gathered so far
    disc_ret,         \* Option: what discover_schemas returned
    issued,           \* the bag of the queries sent to the store, with their outcome
    native_type,      \* simplify_type: the native type name it is given
    simple_type,      \* simplify_type: None, or Some of the name it returned
    configured,       \* discover_and_submit_schemas: the datasources it is given
    ds_index,         \* discover_and_submit_schemas: the datasource the loop is at
    spc,              \* where discover_datasource is
    steps,            \* the steps discover_datasource took, in order, and how they ended
    outcomes,         \* what discover_datasource returned, datasource by datasource
    das_ret,          \* Option: what discover_and_submit_schemas returned
    ds_schemas,       \* Option: discover_datasource's `schemas`, as last discovered
    posted,           \* the schema submissions sent to the server, in order
    handled,          \* Option: the arm Agent::run took for the last process_next
    other_filters,    \* Option<GlobalFilters>: a second configuration, to compare with
    other_config,     \* the Result of building a FilterConfig from other_filters
    other_query       \* the last decision asked of the second policy

filterVars == <<filter_config, query>>

scrubVars == <<scrub_in, scrub_out, scrub_again>>

typeVars == <<native_type, simple_type>>

pairVars == <<other_filters, other_config, other_query>>

runVars == <<handled>>

submitVars == <<configured, ds_index, spc, steps, outcomes, das_ret, ds_schemas, posted>>

agentVars == <<pc, request, fetched, result, sent, ret, is_high_priority_queue,
              acquire_request>>

discVars == <<store, dpc, databases, db_index, tasks, joined, finished, table_schemas, schemas,
              disc_ret, issued>>

vars == <<global_filters, filter_config, query, scrub_in, scrub_out, scrub_again,
          pc, request, fetched, result, sent, ret, is_high_priority_queue, acquire_request,
          store, dpc, databases, db_index, tasks, joined, finished, table_schemas, schemas,
          disc_ret, issued, native_type, simple_type,
          configured, ds_index, spc, steps, outcomes, das_ret, ds_schemas, posted, handled,
          other_filters, other_config, other_query>>

-----------------------------------------------------------------------------
(* Option and Result *)

None == <<>>

Some(x) == <<x>>

IsSome(o) == Len(o) = 1

Unwrap(o) == o[1]

Ok(v) == [ok |-> TRUE, val |-> v]

Err(e) == [ok |-> FALSE, err |-> e]

-----------------------------------------------------------------------------
(* Names and values of the store, as strings *)

system == <<"s", "y", "s", "t", "e", "m">>

INFORMATION_SCHEMA ==
    <<"I", "N", "F", "O", "R", "M", "A", "T", "I", "O", "N", "_", "S", "C", "H", "E", "M", "A">>

information_schema ==
    <<"i", "n", "f", "o", "r", "m", "a", "t", "i", "o", "n", "_", "s", "c", "h", "e", "m", "a">>

NamePS == <<"p", "s">>

NamePQ == <<"p", "q">>

NameQ == <<"q">>

TextPSpaceS == <<"p", " ", "s">>

TextSeven == <<"7">>

-----------------------------------------------------------------------------
(* Pattern strings of the configuration *)

PatStartP == <<"^", "p">>

PatEndS == <<"s", "$">>

PatPS == <<"p", "s">>

PatAny == <<".">>

PatUnclosed == <<"(">>

-----------------------------------------------------------------------------
(* regex::Regex, for the patterns above: an optional leading ^, literal     *)
(* characters and . (any character but a line break), an optional trailing *)
(* $.  A group that is opened and never closed does not compile.           *)

RegexNew(pattern) ==
    IF \E i \in 1..Len(pattern) : pattern[i] = "("
    THEN Err(<<"regex parse error", pattern>>)
    ELSE LET anchored_start == Len(pattern) >= 1 /\ pattern[1] = "^"
             rest == IF anchored_start THEN Tail(pattern) ELSE pattern
             anchored_end == Len(rest) >= 1 /\ rest[Len(rest)] = "$"
             atoms == IF anchored_end THEN SubSeq(rest, 1, Len(rest) - 1) ELSE rest
         IN  Ok([anchored_start |-> anchored_start,
                 anchored_end |-> anchored_end,
                 atoms |-> atoms])

\* Regex::is_match: an unanchored search, the pattern may match anywhere.
IsMatch(re, text) ==
    LET n == Len(re.atoms)
        l == Len(text)
    IN  \E i \in 0..(l - n) :
            /\ re.anchored_start => i = 0
            /\ re.anchored_end => i + n = l
            /\ \A j \in 1..n :
                   \/ re.atoms[j] = "." /\ text[i + j] # "\n"
                   \/ re.atoms[j] = text[i + j]

\* The first pattern of the list deciding alone.
FirstMatch(patterns, text) ==
    patterns # <<>> /\ IsMatch(patterns[1], text)

\* iter().any(|pattern| pattern.is_match(text))
AnyMatch(patterns, text) ==
    \E i \in 1..Len(patterns) : IsMatch(patterns[i], text)

-----------------------------------------------------------------------------
(* SqlFilters (src/filters.rs) *)

EmptySqlFilters ==
    [exclude_database_patterns |-> <<>>,
     exclude_table_patterns |-> <<>>,
     exclude_column_name_patterns |-> <<>>,
     exclude_column_value_patterns |-> <<>>,
     allow_database_patterns |-> <<>>,
     allow_table_patterns |-> <<>>,
     allow_column_name_patterns |-> <<>>,
     allow_column_value_patterns |-> <<>>]

\* The loop with a pattern that does not compile left out of the list.
RECURSIVE PushValidPatterns(_, _)
PushValidPatterns(acc, patterns) ==
    IF ~acc.ok \/ patterns = <<>> THEN acc
    ELSE LET re == RegexNew(Head(patterns))
         IN  IF re.ok
             THEN PushValidPatterns(Ok(Append(acc.val, re.val)), Tail(patterns))
             ELSE PushValidPatterns(acc, Tail(patterns))

\* for pattern in patterns { vec.push(Regex::new(pattern)?) }: the compiled
\* patterns appended to acc (a Result), or the first compile error.
RECURSIVE PushPatterns(_, _)
PushPatterns(acc, patterns) ==
    IF ~acc.ok \/ patterns = <<>> THEN acc
    ELSE LET re == RegexNew(Head(patterns))
         IN  IF re.ok
             THEN PushPatterns(Ok(Append(acc.val, re.val)), Tail(patterns))
             ELSE re

\* if let Some(patterns) = &rules.<field> { ... }
PushOptPatterns(vec, opt_patterns) ==
    IF IsSome(opt_patterns) THEN PushPatterns(Ok(vec), Unwrap(opt_patterns)) ELSE Ok(vec)

add_exclude_patterns(filters, rules) ==
    LET d == PushOptPatterns(filters.exclude_database_patterns, rules.database_regexes)
        t == PushOptPatterns(filters.exclude_table_patterns, rules.table_regexes)
        c == PushOptPatterns(filters.exclude_column_name_patterns, rules.column_name_regexes)
        v == PushOptPatterns(filters.exclude_column_value_patterns, rules.column_value_regexes)
    IN  IF ~d.ok THEN d
        ELSE IF ~t.ok THEN t
        ELSE IF ~c.ok THEN c
        ELSE IF ~v.ok THEN v
        ELSE Ok([filters EXCEPT !.exclude_database_patterns = d.val,
                                !.exclude_table_patterns = t.val,
                                !.exclude_column_name_patterns = c.val,
                                !.exclude_column_value_patterns = v.val])

add_allow_patterns(filters, rules) ==
    LET d == PushOptPatterns(filters.allow_database_patterns, rules.database_regexes)
        t == PushOptPatterns(filters.allow_table_patterns, rules.table_regexes)
        c == PushOptPatterns(filters.allow_column_name_patterns, rules.column_name_regexes)
        v == PushOptPatterns(filters.allow_column_value_patterns, rules.column_value_regexes)
    IN  IF ~d.ok THEN d
        ELSE IF ~t.ok THEN t
        ELSE IF ~c.ok THEN c
        ELSE IF ~v.ok THEN v
        ELSE Ok([filters EXCEPT !.allow_database_patterns = d.val,
                                !.allow_table_patterns = t.val,
                                !.allow_column_name_patterns = c.val,
                                !.allow_column_value_patterns = v.val])

\* for rule in exclude_rules { filters.add_exclude_patterns(rule)?; }
RECURSIVE AddExcludeRules(_, _)
AddExcludeRules(acc, rules) ==
    IF ~acc.ok \/ rules = <<>> THEN acc
    ELSE AddExcludeRules(add_exclude_patterns(acc.val, Head(rules)), Tail(rules))

\* for rule in allow_rules { filters.add_allow_patterns(rule)?; }
RECURSIVE AddAllowRules(_, _)
AddAllowRules(acc, rules) ==
    IF ~acc.ok \/ rules = <<>> THEN acc
    ELSE AddAllowRules(add_allow_patterns(acc.val, Head(rules)), Tail(rules))

\* SqlFilters::new(global_filters: Option<&GlobalFilters>)
SqlFilters_new(opt_global_filters) ==
    IF ~IsSome(opt_global_filters) THEN Ok(EmptySqlFilters)
    ELSE LET gf == Unwrap(opt_global_filters)
             excluded == IF IsSome(gf.sql_filters_exclude)
                         THEN AddExcludeRules(Ok(EmptySqlFilters), Unwrap(gf.sql_filters_exclude))
                         ELSE Ok(EmptySqlFilters)
         IN  IF ~excluded.ok THEN excluded
             ELSE IF IsSome(gf.sql_filters_allow)
                  THEN AddAllowRules(excluded, Unwrap(gf.sql_filters_allow))
                  ELSE excluded

\* should_exclude_database with the exclude patterns left out.
AllowListOnly_database(self, db_name) ==
    self.allow_database_patterns # <<>> /\ ~AnyMatch(self.allow_database_patterns, db_name)

SqlFilters_should_exclude_database(self, db_name) ==
    IF self.allow_database_patterns # <<>> /\ ~AnyMatch(self.allow_database_patterns, db_name)
    THEN TRUE
    ELSE AnyMatch(self.exclude_database_patterns, db_name)

\* should_exclude_table with the allow-list check left out.
ExcludeListOnly_table(self, table_name) ==
    AnyMatch(self.exclude_table_patterns, table_name)

SqlFilters_should_exclude_table(self, table_name) ==
    IF self.allow_table_patterns # <<>> /\ ~AnyMatch(self.allow_table_patterns, table_name)
    THEN TRUE
    ELSE AnyMatch(self.exclude_table_patterns, table_name)

\* should_exclude_column with a matching allow pattern settling the matter.
AllowWins_column(self, column_name) ==
    IF self.allow_column_name_patterns # <<>>
    THEN ~AnyMatch(self.allow_column_name_patterns, column_name)
    ELSE AnyMatch(self.exclude_column_name_patterns, column_name)

SqlFilters_should_exclude_column(self, column_name) ==
    IF self.allow_column_name_patterns # <<>>
       /\ ~AnyMatch(self.allow_column_name_patterns, column_name)
    THEN TRUE
    ELSE AnyMatch(self.exclude_column_name_patterns, column_name)

\* should_exclude_value with the table dimension's exclude patterns applying
\* to values as well.
ValueInheritsTable(self, value) ==
    IF self.allow_column_value_patterns # <<>>
       /\ ~AnyMatch(self.allow_column_value_patterns, value)
    THEN TRUE
    ELSE \/ AnyMatch(self.exclude_column_value_patterns, value)
         \/ AnyMatch(self.exclude_table_patterns, value)

SqlFilters_should_exclude_value(self, value) ==
    IF self.allow_column_value_patterns # <<>>
       /\ ~AnyMatch(self.allow_column_value_patterns, value)
    THEN TRUE
    ELSE AnyMatch(self.exclude_column_value_patterns, value)

-----------------------------------------------------------------------------
(* FilterConfig (src/executors/clickhouse_source.rs) *)

FilterConfig_default ==
    [excluded_databases |-> {system, INFORMATION_SCHEMA, information_schema},
     excluded_tables |-> {},
     sql_filters |-> None]

FilterConfig_with_global_filters(opt_global_filters) ==
    IF IsSome(opt_global_filters)
    THEN LET filters == SqlFilters_new(opt_global_filters)
         IN  IF filters.ok
             THEN Ok([FilterConfig_default EXCEPT !.sql_filters = Some(filters.val)])
             ELSE Err(<<"ExecutionError", "Failed to create SQL filters", filters.err>>)
    ELSE Ok(FilterConfig_default)

\* should_exclude_database without the built-in list.
DatabaseBySqlFiltersOnly(self, db_name) ==
    IsSome(self.sql_filters)
    /\ SqlFilters_should_exclude_database(Unwrap(self.sql_filters), db_name)

FilterConfig_should_exclude_database(self, db_name) ==
    IF db_name \in self.excluded_databases THEN TRUE
    ELSE IF IsSome(self.sql_filters)
            /\ SqlFilters_should_exclude_database(Unwrap(self.sql_filters), db_name)
         THEN TRUE
         ELSE FALSE

\* should_exclude_table with the built-in database names excluded as tables too.
TableAmongBuiltins(self, table_name) ==
    IF table_name \in self.excluded_databases \cup self.excluded_tables THEN TRUE
    ELSE IF IsSome(self.sql_filters)
            /\ SqlFilters_should_exclude_table(Unwrap(self.sql_filters), table_name)
         THEN TRUE
         ELSE FALSE

FilterConfig_should_exclude_table(self, table_name) ==
    IF table_name \in self.excluded_tables THEN TRUE
    ELSE IF IsSome(self.sql_filters)
            /\ SqlFilters_should_exclude_table(Unwrap(self.sql_filters), table_name)
         THEN TRUE
         ELSE FALSE

\* should_exclude_column answering from the table dimension's patterns.
ColumnByTablePatterns(self, column_name) ==
    IF IsSome(self.sql_filters)
    THEN SqlFilters_should_exclude_table(Unwrap(self.sql_filters), column_name)
    ELSE FALSE

FilterConfig_should_exclude_column(self, column_name) ==
    IF IsSome(self.sql_filters)
    THEN SqlFilters_should_exclude_column(Unwrap(self.sql_filters), column_name)
    ELSE FALSE

\* should_exclude_value answering from the database dimension's patterns.
ValueByDatabasePatterns(self, value) ==
    IF IsSome(self.sql_filters)
    THEN SqlFilters_should_exclude_database(Unwrap(self.sql_filters), value)
    ELSE FALSE

FilterConfig_should_exclude_value(self, value) ==
    IF IsSome(self.sql_filters)
    THEN SqlFilters_should_exclude_value(Unwrap(self.sql_filters), value)
    ELSE FALSE

-----------------------------------------------------------------------------
(* The row scrubber (ClickhouseExecutor::filter_job_results).  A row        *)
(* (JobType = HashMap<String, Value>) is the sequence of its fields in the *)
(* order the map iterates them; a serde_json Value is its kind and its     *)
(* text (a string's content, a number's digits).                           *)

\* Every value given its text form, as Value::to_string would.
Value_to_string(value) == Some(value.text)

\* Value::as_str: the content of a string, None for any other value.
Value_as_str(value) == IF value.kind = "string" THEN Some(value.text) ELSE None

\* The value matched as it is, spaces kept.
KeepSpaces(text) == text

\* value_str.replace(" ", "")
RemoveSpaces(text) == SelectSeq(text, LAMBDA ch : ch # " ")

\* The loop over the fields of one row: should_include_row at its end.
RECURSIVE should_include_row(_, _)
should_include_row(fc, fields) ==
    IF fields = <<>> THEN TRUE
    ELSE LET key == Head(fields).key
             value_str == Value_as_str(Head(fields).value)
         IN  IF FilterConfig_should_exclude_column(fc, key) THEN FALSE
             ELSE IF IsSome(value_str)
                     /\ FilterConfig_should_exclude_value(fc, RemoveSpaces(Unwrap(value_str)))
                  THEN FALSE
                  ELSE should_include_row(fc, Tail(fields))

\* The scrubber taking the offending fields out of a row and keeping the row.
filter_job_results_redacting(fc, rows) ==
    IF ~IsSome(fc.sql_filters) THEN rows
    ELSE [i \in 1..Len(rows) |->
             SelectSeq(rows[i], LAMBDA field : should_include_row(fc, <<field>>))]

\* The scrubber skipping the first row it is given, as a header would be.
filter_job_results_after_first(fc, rows) ==
    IF ~IsSome(fc.sql_filters) \/ rows = <<>> THEN rows
    ELSE SelectSeq(Tail(rows), LAMBDA row : should_include_row(fc, row))

filter_job_results(fc, rows) ==
    IF ~IsSome(fc.sql_filters) THEN rows
    ELSE SelectSeq(rows, LAMBDA row : should_include_row(fc, row))

-----------------------------------------------------------------------------
(* The configurations the model draws from (src/config.rs: SqlFilterRules,  *)
(* GlobalFilters)                                                          *)

MaxBlocks == 2

Dimensions == {"database", "table", "column_name", "column_value"}

\* An absent list of rules or patterns holds none.
RulesOf(opt_rules) == IF IsSome(opt_rules) THEN Unwrap(opt_rules) ELSE <<>>

FieldOf(block, dim) ==
    CASE dim = "database" -> block.database_regexes
      [] dim = "table" -> block.table_regexes
      [] dim = "column_name" -> block.column_name_regexes
      [] dim = "column_value" -> block.column_value_regexes

BlockA ==
    [database_regexes |-> Some(<<PatEndS, PatStartP>>),
     table_regexes |-> Some(<<PatEndS>>),
     column_name_regexes |-> Some(<<>>),
     column_value_regexes |-> Some(<<PatPS>>)]

BlockB ==
    [database_regexes |-> Some(<<PatAny>>),
     table_regexes |-> None,
     column_name_regexes |-> Some(<<PatAny>>),
     column_value_regexes |-> Some(<<PatEndS>>)]

BlockC ==
    [database_regexes |-> None,
     table_regexes |-> Some(<<PatStartP>>),
     column_name_regexes |-> Some(<<PatPS>>),
     column_value_regexes |-> Some(<<PatAny>>)]

\* A block with a pattern that does not compile.
BlockBad ==
    [database_regexes |-> None,
     table_regexes |-> None,
     column_name_regexes |-> Some(<<PatPS>>),
     column_value_regexes |-> Some(<<PatUnclosed>>)]

Blocks == {BlockA, BlockB, BlockC}

SeqsUpTo(S, n) == UNION {[1..k -> S] : k \in 0..n}

OptRuleLists(n) == {None} \cup {Some(bs) : bs \in SeqsUpTo(Blocks, n)}

GlobalFiltersOf(n) ==
    {[sql_filters_exclude |-> e, sql_filters_allow |-> a] :
        e \in OptRuleLists(n), a \in OptRuleLists(n)}

\* Configurations whose patterns all compile.
Configs == {None} \cup {Some(g) : g \in GlobalFiltersOf(MaxBlocks)}

\* A block that constrains databases and tables only.
BlockD ==
    [database_regexes |-> Some(<<PatStartP>>),
     table_regexes |-> Some(<<PatEndS>>),
     column_name_regexes |-> None,
     column_value_regexes |-> Some(<<>>)]

\* Configurations without a pattern for column names or values.
TableOnlyConfigs ==
    {Some([sql_filters_exclude |-> Some(<<BlockD>>), sql_filters_allow |-> None]),
     Some([sql_filters_exclude |-> None, sql_filters_allow |-> Some(<<BlockD>>)]),
     Some([sql_filters_exclude |-> Some(<<BlockD>>), sql_filters_allow |-> Some(<<BlockD>>)])}

\* Those with at most one rule block in each direction.
SmallConfigs == {None} \cup {Some(g) : g \in GlobalFiltersOf(1)}

\* Configurations with a pattern that is not a regular expression.
BadConfigs ==
    {Some([sql_filters_exclude |-> Some(<<BlockBad>>), sql_filters_allow |-> None]),
     Some([sql_filters_exclude |-> Some(<<BlockA>>), sql_filters_allow |-> Some(<<BlockA, BlockBad>>)])}

\* BlockA with one more pattern in one dimension, put first or last there.
WithPattern(dim, pattern, first) ==
    LET old == RulesOf(FieldOf(BlockA, dim))
        new == Some(IF first THEN <<pattern>> \o old ELSE Append(old, pattern))
    IN  CASE dim = "database" -> [BlockA EXCEPT !.database_regexes = new]
          [] dim = "table" -> [BlockA EXCEPT !.table_regexes = new]
          [] dim = "column_name" -> [BlockA EXCEPT !.column_name_regexes = new]
          [] dim = "column_value" -> [BlockA EXCEPT !.column_value_regexes = new]

\* Rule blocks with the uncompilable pattern in any dimension and position.
BadBlocks == {WithPattern(dim, PatUnclosed, first) : dim \in Dimensions, first \in BOOLEAN}

\* Rule lists with one bad block, alone, first or last.
BadRuleLists == UNION {{<<b>>, <<b, BlockC>>, <<BlockC, b>>} : b \in BadBlocks}

\* Configurations with an uncompilable pattern in either direction, in any
\* block, dimension and position.
AllBadConfigs ==
    {Some([sql_filters_exclude |-> Some(bad), sql_filters_allow |-> other]) :
        bad \in BadRuleLists, other \in {None, Some(<<BlockC>>)}}
    \cup {Some([sql_filters_exclude |-> other, sql_filters_allow |-> Some(bad)]) :
        bad \in BadRuleLists, other \in {None, Some(<<BlockC>>)}}

Candidates ==
    {system, INFORMATION_SCHEMA, information_schema, NamePS, NamePQ, NameQ, TextPSpaceS, <<>>}

-----------------------------------------------------------------------------
(* The executor's policy is built once, then asked for decisions *)

NotBuilt == [ok |-> FALSE, err |-> <<"not built">>]

IsNotBuilt(fc) == ~fc.ok /\ fc.err = <<"not built">>

NoQuery == [fn |-> "none", arg |-> <<>>, sql |-> None, cfg |-> FALSE]

\* ClickhouseExecutor::with_global_filters: FilterConfig::with_global_filters(...)?
Construct ==
    /\ IsNotBuilt(filter_config)
    /\ filter_config' = FilterConfig_with_global_filters(global_filters)
    /\ UNCHANGED <<global_filters, runVars, query, scrubVars, typeVars, submitVars, pairVars, agentVars, discVars>>

\* What SqlFilters itself answers, when the policy holds one.
SqlAnswer(fc, dim, arg) ==
    IF ~IsSome(fc.sql_filters) THEN None
    ELSE LET f == Unwrap(fc.sql_filters)
         IN  Some(CASE dim = "database" -> SqlFilters_should_exclude_database(f, arg)
                    [] dim = "table" -> SqlFilters_should_exclude_table(f, arg)
                    [] dim = "column_name" -> SqlFilters_should_exclude_column(f, arg)
                    [] dim = "column_value" -> SqlFilters_should_exclude_value(f, arg))

AskDatabase ==
    /\ filter_config.ok
    /\ \E c \in Candidates :
           query' = [fn |-> "database", arg |-> c,
                     sql |-> SqlAnswer(filter_config.val, "database", c),
                     cfg |-> FilterConfig_should_exclude_database(filter_config.val, c)]
    /\ UNCHANGED <<global_filters, runVars, filter_config, scrubVars, typeVars, submitVars, pairVars, agentVars, discVars>>

AskTable ==
    /\ filter_config.ok
    /\ \E c \in Candidates :
           query' = [fn |-> "table", arg |-> c,
                     sql |-> SqlAnswer(filter_config.val, "table", c),
                     cfg |-> FilterConfig_should_exclude_table(filter_config.val, c)]
    /\ UNCHANGED <<global_filters, runVars, filter_config, scrubVars, typeVars, submitVars, pairVars, agentVars, discVars>>

AskColumn ==
    /\ filter_config.ok
    /\ \E c \in Candidates :
           query' = [fn |-> "column_name", arg |-> c,
                     sql |-> SqlAnswer(filter_config.val, "column_name", c),
                     cfg |-> FilterConfig_should_exclude_column(filter_config.val, c)]
    /\ UNCHANGED <<global_filters, runVars, filter_config, scrubVars, typeVars, submitVars, pairVars, agentVars, discVars>>

AskValue ==
    /\ filter_config.ok
    /\ \E c \in Candidates :
           query' = [fn |-> "column_value", arg |-> c,
                     sql |-> SqlAnswer(filter_config.val, "column_value", c),
                     cfg |-> FilterConfig_should_exclude_value(filter_config.val, c)]
    /\ UNCHANGED <<global_filters, runVars, filter_config, scrubVars, typeVars, submitVars, pairVars, agentVars, discVars>>

ScrubIdle == scrub_in = <<>> /\ scrub_out = None /\ scrub_again = None

\* No type name to simplify.
TypeIdle == native_type = <<>> /\ simple_type = None

\* No second policy to compare with.
PairIdle ==
    /\ other_filters = None
    /\ other_config = NotBuilt
    /\ other_query = NoQuery

\* No startup discovery running.
SubmitIdle ==
    /\ configured = <<>>
    /\ ds_index = 0
    /\ spc = "idle"
    /\ steps = <<>>
    /\ outcomes = <<>>
    /\ das_ret = None
    /\ ds_schemas = None
    /\ posted = <<>>

NoResult == [ok |-> FALSE, err |-> <<"no result">>]

\* Agent::run has not been through its loop.
RunIdle == handled = None

AgentIdle ==
    /\ pc = "idle"
    /\ request = None
    /\ fetched = None
    /\ result = NoResult
    /\ sent = <<>>
    /\ ret = None
    /\ is_high_priority_queue = FALSE
    /\ acquire_request = None

\* No discovery running: the store is not looked at.
DiscIdle ==
    /\ store = <<>>
    /\ dpc = "idle"
    /\ databases = <<>>
    /\ db_index = 0
    /\ tasks = <<>>
    /\ joined = 0
    /\ finished = <<>>
    /\ table_schemas = <<>>
    /\ schemas = <<>>
    /\ disc_ret = None
    /\ issued = EmptyBag

FilterInit ==
    /\ global_filters \in Configs \cup BadConfigs
    /\ filter_config = NotBuilt
    /\ query = NoQuery
    /\ ScrubIdle
    /\ TypeIdle
    /\ SubmitIdle
    /\ PairIdle
    /\ AgentIdle
    /\ RunIdle
    /\ DiscIdle

FilterNext ==
    \/ Construct
    \/ AskDatabase
    \/ AskTable
    \/ AskColumn
    \/ AskValue

SpecFilter == FilterInit /\ [][FilterNext]_vars

-----------------------------------------------------------------------------
(* The patterns of a configuration, read off the configuration itself *)

PatternsIn(rules, dim) ==
    UNION {{RulesOf(FieldOf(rules[i], dim))[j] :
               j \in 1..Len(RulesOf(FieldOf(rules[i], dim)))} : i \in 1..Len(rules)}

AllowPatterns(opt_gf, dim) ==
    IF IsSome(opt_gf) THEN PatternsIn(RulesOf(Unwrap(opt_gf).sql_filters_allow), dim) ELSE {}

ExcludePatterns(opt_gf, dim) ==
    IF IsSome(opt_gf) THEN PatternsIn(RulesOf(Unwrap(opt_gf).sql_filters_exclude), dim) ELSE {}

Matches(pattern, text) == RegexNew(pattern).ok /\ IsMatch(RegexNew(pattern).val, text)

MatchesAny(patterns, text) == \E p \in patterns : Matches(p, text)

Asked == query.fn \in Dimensions /\ IsSome(query.sql)

\* C1: in each dimension, a candidate that matches no pattern of a non-empty
\* allow set is excluded, whatever the exclude set of the dimension holds.
C1_AllowMissExcludes ==
    (/\ Asked
     /\ AllowPatterns(global_filters, query.fn) # {}
     /\ ~MatchesAny(AllowPatterns(global_filters, query.fn), query.arg))
    => (Unwrap(query.sql) = TRUE /\ query.cfg = TRUE)

C1_Witness ==
    /\ Asked
    /\ query.fn = "table"
    /\ AllowPatterns(global_filters, query.fn) # {}
    /\ ~MatchesAny(AllowPatterns(global_filters, query.fn), query.arg)
    /\ ExcludePatterns(global_filters, query.fn) = {}
    /\ Unwrap(query.sql) = TRUE

\* C2: in each dimension, with an empty allow set a candidate is excluded
\* exactly when it matches an exclude pattern of the dimension; with both
\* sets empty every candidate is included.
C2_EmptyAllowOnlyExclude ==
    (Asked /\ AllowPatterns(global_filters, query.fn) = {})
    => (Unwrap(query.sql) = MatchesAny(ExcludePatterns(global_filters, query.fn), query.arg))

C2_Witness ==
    /\ Asked
    /\ query.fn = "column_value"
    /\ AllowPatterns(global_filters, query.fn) = {}
    /\ MatchesAny(ExcludePatterns(global_filters, query.fn), query.arg)
    /\ Unwrap(query.sql) = TRUE

-----------------------------------------------------------------------------
(* Rows of a job query's result *)

MaxRows == 2

FieldKeys == {NamePS, NameQ}

Values ==
    {[kind |-> "string", text |-> TextPSpaceS],
     [kind |-> "string", text |-> NameQ],
     [kind |-> "number", text |-> TextSeven]}

Fields == {[key |-> k, value |-> v] : k \in FieldKeys, v \in Values}

ValueTrue == [kind |-> "bool", text |-> <<"t", "r", "u", "e">>]

ValueNull == [kind |-> "null", text |-> <<"n", "u", "l", "l">>]

\* Rows of booleans and nulls only.
OtherRows ==
    {<<[key |-> NameQ, value |-> ValueTrue]>>,
     <<[key |-> NameQ, value |-> ValueNull]>>,
     <<[key |-> NameQ, value |-> ValueNull], [key |-> NamePS, value |-> ValueTrue]>>}

\* Every map from some of the keys to values, in every iteration order, and
\* the rows of booleans and nulls.
Rows ==
    {r \in SeqsUpTo(Fields, Cardinality(FieldKeys)) :
        \A i, j \in 1..Len(r) : i # j => r[i].key # r[j].key}
    \cup OtherRows

RowLists == SeqsUpTo(Rows, MaxRows)

\* executor.filter_job_results(rows), called on a built executor
Scrub ==
    /\ filter_config.ok
    /\ scrub_out = None
    /\ \E rows \in RowLists :
           /\ scrub_in' = rows
           /\ scrub_out' = Some(filter_job_results(filter_config.val, rows))
    /\ UNCHANGED <<global_filters, runVars, filter_config, query, scrub_again, typeVars, submitVars, pairVars, agentVars, discVars>>

\* executor.filter_job_results(rows) once more, on the rows it returned
ScrubAgain ==
    /\ filter_config.ok
    /\ IsSome(scrub_out)
    /\ scrub_again = None
    /\ scrub_again' = Some(filter_job_results(filter_config.val, Unwrap(scrub_out)))
    /\ UNCHANGED <<global_filters, runVars, filter_config, query, scrub_in, scrub_out, typeVars, submitVars, pairVars, agentVars, discVars>>

ScrubInit ==
    /\ global_filters \in SmallConfigs \cup BadConfigs \cup TableOnlyConfigs
    /\ filter_config = NotBuilt
    /\ query = NoQuery
    /\ ScrubIdle
    /\ TypeIdle
    /\ SubmitIdle
    /\ PairIdle
    /\ AgentIdle
    /\ RunIdle
    /\ DiscIdle

ScrubNext ==
    \/ Construct
    \/ Scrub
    \/ ScrubAgain

SpecScrub == ScrubInit /\ [][ScrubNext]_vars

\* The decision of a dimension, read off the configuration: a candidate is
\* excluded when it matches an exclude pattern or fails a non-empty allow set.
Excluded(opt_gf, dim, text) ==
    \/ AllowPatterns(opt_gf, dim) # {} /\ ~MatchesAny(AllowPatterns(opt_gf, dim), text)
    \/ MatchesAny(ExcludePatterns(opt_gf, dim), text)

WithoutSpaces(text) == SelectSeq(text, LAMBDA ch : ch # " ")

HasExcludedColumn(row) ==
    \E i \in 1..Len(row) : Excluded(global_filters, "column_name", row[i].key)

HasExcludedString(row) ==
    \E i \in 1..Len(row) :
        /\ row[i].value.kind = "string"
        /\ Excluded(global_filters, "column_value", WithoutSpaces(row[i].value.text))

\* Some value of the row, whatever its type, has a string form (a string's
\* content with its spaces removed, a number's digits) that matches an exclude
\* pattern of the value dimension.
HasExcludedStringForm(row) ==
    \E i \in 1..Len(row) :
        MatchesAny(ExcludePatterns(global_filters, "column_value"),
                   WithoutSpaces(row[i].value.text))

Scrubbed == IsSome(scrub_out)

ScrubOut == Unwrap(scrub_out)

\* C4: no row of the scrubber's output has a field with an excluded column
\* name or a value whose string form an exclude pattern of the value
\* dimension matches.
C4_NoExcludedFieldSurvives ==
    Scrubbed => \A i \in 1..Len(ScrubOut) :
                    ~HasExcludedColumn(ScrubOut[i]) /\ ~HasExcludedStringForm(ScrubOut[i])

\* C5: a row with a field whose column name is excluded is absent from the
\* output, whatever its other fields are.
C5_ExcludedColumnDropsRow ==
    Scrubbed => \A i \in 1..Len(scrub_in) :
                    HasExcludedColumn(scrub_in[i])
                    => \A j \in 1..Len(ScrubOut) : ScrubOut[j] # scrub_in[i]

C5_Witness ==
    /\ Scrubbed
    /\ Len(scrub_in) = 2
    /\ Len(scrub_in[1]) = 2
    /\ ~Excluded(global_filters, "column_name", scrub_in[1][1].key)
    /\ Excluded(global_filters, "column_name", scrub_in[1][2].key)
    /\ ~HasExcludedString(scrub_in[1])
    /\ ScrubOut = <<scrub_in[2]>>

\* C6: a row with a string value that, with its spaces removed, is excluded
\* at the value dimension is dropped whole.
C6_ExcludedValueDropsRow ==
    Scrubbed => \A i \in 1..Len(scrub_in) :
                    HasExcludedString(scrub_in[i])
                    => \A j \in 1..Len(ScrubOut) : ScrubOut[j] # scrub_in[i]

C6_Witness ==
    /\ Scrubbed
    /\ Len(scrub_in) = 2
    /\ Len(scrub_in[1]) = 2
    /\ ~HasExcludedColumn(scrub_in[1])
    /\ scrub_in[1][2].value.text = TextPSpaceS
    /\ ~Excluded(global_filters, "column_value", TextPSpaceS)
    /\ Excluded(global_filters, "column_value", NamePS)
    /\ ~HasExcludedString(<<scrub_in[1][1]>>)
    /\ ScrubOut = <<scrub_in[2]>>

-----------------------------------------------------------------------------
(* The job path: JobAgent::process_next (src/agent/mod.rs), BaseAgent      *)
(* (src/agent/base.rs), create_executor (src/executors/mod.rs),            *)
(* ClickhouseExecutor::execute_job and ServerClient (src/client.rs)        *)

\* BaseAgent.datasources: the configured datasources.
Datasources ==
    <<[name |-> "ch", source_type |-> "Clickhouse", hosts |-> <<"http://ch:8123">>],
      [name |-> "pg", source_type |-> "PostgreSQL", hosts |-> <<"pg:5432">>],
      [name |-> "my", source_type |-> "MySQL", hosts |-> <<"my:3306">>],
      [name |-> "prom", source_type |-> "Prometheus", hosts |-> <<"prom:9090">>],
      [name |-> "nohost", source_type |-> "Clickhouse", hosts |-> <<>>],
      [name |-> "pg0", source_type |-> "PostgreSQL", hosts |-> <<>>]>>

\* The tasks the server may hand out.
Requests ==
    {[id |-> i, datasource_name |-> n, query |-> "SELECT"] :
        i \in {"1", "2"}, n \in {"ch", "pg", "my", "prom", "nohost", "pg0", "gone"}}

\* What the server answers to a request of the agent.
ServerReplies == {"ok", "not_found", "server_error", "send_error"}

\* What the server answers to an acquire request: the body may also fail to parse.
AcquireReplies == ServerReplies \cup {"bad_body"}

\* What the store answers to the job query: the rows, or where it failed.
StoreFailures == {"send_error", "status_error", "text_error", "json_error"}

\* BaseAgent::find_datasource
find_datasource(datasources, query_request) ==
    LET hits == SelectSeq(datasources, LAMBDA ds : ds.name = query_request.datasource_name)
    IN  IF hits = <<>> THEN None ELSE Some(Head(hits))

\* ClickhouseExecutor::with_global_filters: the executor is its filter_config here.
ClickhouseExecutor_with_global_filters(host, opt_global_filters) ==
    LET fc == FilterConfig_with_global_filters(opt_global_filters)
    IN  IF fc.ok THEN Ok([url |-> host, filter_config |-> fc.val]) ELSE fc

\* create_executor building the executor of the only implemented store for
\* every type of datasource.
create_executor_for_any_type(datasource, opt_global_filters) ==
    IF datasource.hosts = <<>>
    THEN Err(<<"No host specified for Clickhouse datasource">>)
    ELSE ClickhouseExecutor_with_global_filters(Head(datasource.hosts), opt_global_filters)

create_executor(datasource, opt_global_filters) ==
    IF datasource.hosts = <<>>
    THEN Err(<<"No host specified for Clickhouse datasource">>)
    ELSE CASE datasource.source_type = "Clickhouse" ->
                ClickhouseExecutor_with_global_filters(Head(datasource.hosts), opt_global_filters)
           [] datasource.source_type = "PostgreSQL" ->
                Err(<<"PostgreSQL executor not implemented">>)
           [] datasource.source_type = "MySQL" ->
                Err(<<"MySQL executor not implemented">>)
           [] datasource.source_type = "Prometheus" ->
                Err(<<"Prometheus executor not implemented">>)

\* execute_job returning the parsed rows without the scrubber.
execute_job_unscrubbed(executor, reply) ==
    CASE reply.kind = "send_error" -> Err(<<"ConnectionError", "send">>)
      [] reply.kind = "status_error" -> Err(<<"ExecutionError", "status">>)
      [] reply.kind = "text_error" -> Err(<<"ExecutionError", "text">>)
      [] reply.kind = "json_error" -> Err(<<"ExecutionError", "json">>)
      [] reply.kind = "rows" -> Ok(reply.rows)

\* ClickhouseExecutor::execute_job, given what the store answered.
execute_job(executor, reply) ==
    CASE reply.kind = "send_error" -> Err(<<"ConnectionError", "send">>)
      [] reply.kind = "status_error" -> Err(<<"ExecutionError", "status">>)
      [] reply.kind = "text_error" -> Err(<<"ExecutionError", "text">>)
      [] reply.kind = "json_error" -> Err(<<"ExecutionError", "json">>)
      [] reply.kind = "rows" ->
            IF IsSome(executor.filter_config.sql_filters)
            THEN Ok(filter_job_results(executor.filter_config, reply.rows))
            ELSE Ok(reply.rows)

\* .map_err(|e| anyhow!("Query execution error for query: {}", e))
MapQueryError(data) ==
    IF data.ok THEN data ELSE Err(<<"Query execution error for query:">> \o data.err)

\* BaseAgent::process_job up to the executor: the datasource is looked up and
\* the executor created; Ok carries the executor, Err what process_job returns.
process_job_executor(datasources, opt_global_filters, query_request) ==
    IF ~IsSome(find_datasource(datasources, query_request))
    THEN Err(<<"No matching datasource found for query", query_request.datasource_name>>)
    ELSE create_executor(Unwrap(find_datasource(datasources, query_request)),
                         opt_global_filters)

\* BaseAgent::process_job from the executor on, given what the store answers.
process_job_execute(executor, reply) ==
    MapQueryError(execute_job(executor, reply))

\* ServerClient::acquire_next_job with handle_response_errors
acquire_next_job(reply, body) ==
    CASE reply = "send_error" -> Err(<<"Failed to send acquire job request">>)
      [] reply = "not_found" -> Err(<<"No jobs available">>)
      [] reply = "server_error" -> Err(<<"Failed to acquire job", "500">>)
      [] reply = "bad_body" -> Err(<<"Failed to acquire job", "json">>)
      [] reply = "ok" -> Ok(body)

\* ServerClient::submit_job_results
submit_job_results(reply) ==
    CASE reply = "send_error" -> Err(<<"Failed to send submit job results request">>)
      [] reply \in {"not_found", "server_error"} -> Err(<<"Failed to submit job results", reply>>)
      [] reply = "ok" -> Ok(<<>>)

\* ServerClient::submit_job_error
submit_job_error(reply) ==
    CASE reply = "send_error" -> Err(<<"Failed to send submit job error request">>)
      [] reply \in {"not_found", "server_error"} -> Err(<<"Failed to submit error", reply>>)
      [] reply = "ok" -> Ok(<<>>)

\* process_next returning what the error submission returned when it failed.
ReturnSubmitFailure(e, submitted) ==
    IF submitted.ok THEN Err(e) ELSE submitted

\* process_next, Err(e) arm: match submit_error(..).await { Ok(_) => (),
\* Err(submit_err) => warn!(..) }; return Err(e)
ReturnOriginalError(e, submitted) == Err(e)

\* process_next going on as if nothing had happened when acquiring failed.
AcquireErrorIgnored(context, e) == Ok(<<>>)

\* process_next: .map_err(|e| anyhow!("<context> {}", e))? on the acquire call
AcquireError(context, e) == Err(<<context>> \o e)

\* process_next up to the answer to acquire_next_job
JobAcquire ==
    /\ pc = "idle"
    /\ \E reply \in AcquireReplies, body \in Requests :
           LET query_request == acquire_next_job(reply, body)
           IN  IF query_request.ok
               THEN /\ request' = Some(query_request.val)
                    /\ pc' = "acquired"
                    /\ ret' = ret
               ELSE /\ ret' = Some(AcquireError("Failed to acquire next job from server:",
                                                query_request.err))
                    /\ pc' = "returned"
                    /\ request' = request
    /\ UNCHANGED <<global_filters, runVars, filter_config, query, scrubVars, typeVars, submitVars, pairVars, fetched, result, sent, is_high_priority_queue,
                   acquire_request, discVars>>

\* What process_next does with the outcome of create_executor(...).await?
ExecutorCreated(executor) ==
    /\ pc' = IF executor.ok THEN "executing" ELSE "processed"
    /\ filter_config' = IF executor.ok THEN Ok(executor.val.filter_config) ELSE filter_config
    /\ result' = IF executor.ok THEN result ELSE executor

\* self.base.process_job(&query_request).await up to create_executor(...).await?
JobCreateExecutor ==
    /\ pc = "acquired"
    /\ ExecutorCreated(process_job_executor(Datasources, global_filters, Unwrap(request)))
    /\ UNCHANGED <<global_filters, runVars, query, scrubVars, typeVars, submitVars, pairVars, request, fetched, sent, ret, is_high_priority_queue,
                   acquire_request, discVars>>

\* executor.execute_job(&query_request.query).await, the store failing the query.
JobExecuteFailure ==
    /\ pc = "executing"
    /\ \E failure \in StoreFailures :
           result' = process_job_execute([filter_config |-> filter_config.val],
                                         [kind |-> failure, rows |-> <<>>])
    /\ pc' = "processed"
    /\ UNCHANGED <<global_filters, runVars, filter_config, query, scrubVars, typeVars, submitVars, pairVars, request, fetched, sent, ret, is_high_priority_queue,
                   acquire_request, discVars>>

\* executor.execute_job(&query_request.query).await, the store returning rows.
JobExecuteRows ==
    /\ pc = "executing"
    /\ \E rows \in RowLists :
           /\ fetched' = Some(rows)
           /\ result' = process_job_execute([filter_config |-> filter_config.val],
                                            [kind |-> "rows", rows |-> rows])
    /\ pc' = "processed"
    /\ UNCHANGED <<global_filters, runVars, filter_config, query, scrubVars, typeVars, submitVars, pairVars, request, sent, ret, is_high_priority_queue,
                   acquire_request, discVars>>

\* A results arm that goes back to submit again when the submission failed.
RetryFailedSubmission(submitted, again) == IF submitted.ok THEN "returned" ELSE again

\* The results arm after the submission: `.await?` returns its error, and past
\* it process_next ends with Ok(()); either way the call is over.
ReturnAfterSubmission(submitted, again) == "returned"

\* Ok(data) => submit_job_results(&query_request.id, data).await?
JobSubmitResults ==
    /\ pc = "processed"
    /\ result.ok
    /\ \E reply \in ServerReplies :
           /\ sent' = Append(sent, [kind |-> "job_results", id |-> Unwrap(request).id,
                                    records |-> result.val, reply |-> reply])
           /\ ret' = Some(submit_job_results(reply))
           /\ pc' = ReturnAfterSubmission(submit_job_results(reply), "processed")
    /\ UNCHANGED <<global_filters, runVars, filter_config, query, scrubVars, typeVars, submitVars, pairVars, request, fetched, result, is_high_priority_queue,
                   acquire_request, discVars>>

\* Err(e) => submit_job_error(&query_request.id, &error_msg).await; return Err(e)
JobSubmitError ==
    /\ pc = "processed"
    /\ ~result.ok
    /\ \E reply \in ServerReplies :
           /\ sent' = Append(sent, [kind |-> "job_error", id |-> Unwrap(request).id,
                                    error |-> result.err, reply |-> reply])
           /\ ret' = Some(ReturnOriginalError(result.err, submit_job_error(reply)))
    /\ pc' = "returned"
    /\ UNCHANGED <<global_filters, runVars, filter_config, query, scrubVars, typeVars, submitVars, pairVars, request, fetched, result, is_high_priority_queue,
                   acquire_request, discVars>>

JobConfigs ==
    {None,
     Some([sql_filters_exclude |-> Some(<<BlockA>>), sql_filters_allow |-> None]),
     Some([sql_filters_exclude |-> Some(<<BlockC>>), sql_filters_allow |-> None]),
     Some([sql_filters_exclude |-> Some(<<BlockA>>), sql_filters_allow |-> Some(<<BlockC>>)]),
     Some([sql_filters_exclude |-> None, sql_filters_allow |-> Some(<<BlockB>>)]),
     Some([sql_filters_exclude |-> Some(<<BlockBad>>), sql_filters_allow |-> None])}
    \cup AllBadConfigs

JobInit ==
    /\ global_filters \in JobConfigs
    /\ filter_config = NotBuilt
    /\ query = NoQuery
    /\ ScrubIdle
    /\ TypeIdle
    /\ SubmitIdle
    /\ PairIdle
    /\ AgentIdle
    /\ RunIdle
    /\ DiscIdle

JobNext ==
    \/ JobAcquire
    \/ JobCreateExecutor
    \/ JobExecuteFailure
    \/ JobExecuteRows
    \/ JobSubmitResults
    \/ JobSubmitError

SpecJob == JobInit /\ [][JobNext]_vars

\* ---------------------------------------------------------------------------
\* The observation agents: ObservationAgent::process_next, for the ordinary and
\* for the high priority queue, next to the job agent.

\* The time series the store may answer a task's query with.
RecordLists ==
    {<<>>, <<[t |-> 1, cnt |-> 2]>>, <<[t |-> 1, cnt |-> 2], [t |-> 2, cnt |-> 0]>>}

\* What fetch_all may end with other than rows: the store was not reached, or
\* it answered with an error (a rejected query, refused credentials).
FetchFailures == {"network_error", "bad_response"}

\* A Record { t, cnt } as a row of the job path: its two fields by name.
RecordAsRow(record) ==
    <<[key |-> <<"t">>, value |-> [kind |-> "number", text |-> TextSeven]],
      [key |-> <<"c", "n", "t">>, value |-> [kind |-> "number", text |-> TextSeven]]>>

\* An execute_ts that puts its rows through the scrubber as execute_job does.
execute_ts_scrubbed(executor, reply) ==
    CASE reply.kind = "network_error" -> Err(<<"ExecutionError", "network error">>)
      [] reply.kind = "bad_response" -> Err(<<"ExecutionError", "bad response">>)
      [] reply.kind = "rows" ->
            IF IsSome(executor.filter_config.sql_filters)
            THEN Ok(SelectSeq(reply.rows,
                              LAMBDA record : should_include_row(executor.filter_config,
                                                                 RecordAsRow(record))))
            ELSE Ok(reply.rows)

\* ClickhouseExecutor::execute_ts, given what the store answered: every error
\* of fetch_all becomes ExecutionError(e.to_string()).
execute_ts(executor, reply) ==
    CASE reply.kind = "network_error" -> Err(<<"ExecutionError", "network error">>)
      [] reply.kind = "bad_response" -> Err(<<"ExecutionError", "bad response">>)
      [] reply.kind = "rows" -> Ok(reply.rows)

\* BaseAgent::process_query up to the executor.
process_query_executor(datasources, opt_global_filters, query_request) ==
    IF ~IsSome(find_datasource(datasources, query_request))
    THEN Err(<<"No matching datasource found for query", query_request.datasource_name>>)
    ELSE create_executor(Unwrap(find_datasource(datasources, query_request)),
                         opt_global_filters)

\* BaseAgent::process_query from the executor on, given what the store answers.
process_query_execute(executor, reply) ==
    MapQueryError(execute_ts(executor, reply))

\* ServerClient::acquire_next_query with handle_response_errors
acquire_next_query(reply, body) ==
    CASE reply = "send_error" -> Err(<<"Failed to send acquire task request">>)
      [] reply = "not_found" -> Err(<<"No tasks available">>)
      [] reply = "server_error" -> Err(<<"Failed to acquire task", "500">>)
      [] reply = "bad_body" -> Err(<<"Failed to acquire task", "json">>)
      [] reply = "ok" -> Ok(body)

\* ServerClient::submit_results
submit_results(reply) ==
    CASE reply = "send_error" -> Err(<<"Failed to send submit results request">>)
      [] reply \in {"not_found", "server_error"} -> Err(<<"Failed to submit results", reply>>)
      [] reply = "ok" -> Ok(<<>>)

\* ServerClient::submit_error
submit_error(reply) ==
    CASE reply = "send_error" -> Err(<<"Failed to send submit error request">>)
      [] reply \in {"not_found", "server_error"} -> Err(<<"Failed to submit error", reply>>)
      [] reply = "ok" -> Ok(<<>>)

\* .json(&AcquireRequest { is_high_priority_queue })
AcquireRequest(high_priority) == [is_high_priority_queue |-> high_priority]

\* submit_results posting the records to the ordinary queue whatever the flag.
SubmitTaskRequestOrdinary(task_id, data, high_priority) ==
    [kind |-> "task_results", id |-> task_id, records |-> data,
     is_high_priority_queue |-> FALSE]

\* POST /tasks/{task_id}/submit with SubmitTaskRequest { records: data,
\* is_high_priority_queue }
SubmitTaskRequest(task_id, data, high_priority) ==
    [kind |-> "task_results", id |-> task_id, records |-> data,
     is_high_priority_queue |-> high_priority]

\* POST /tasks/{task_id}/submit with ErrorSubmissionRequest { error,
\* is_high_priority_queue }
ErrorSubmissionRequest(task_id, error, high_priority) ==
    [kind |-> "task_error", id |-> task_id, error |-> error,
     is_high_priority_queue |-> high_priority]

\* The post and what the server answered to it.
Answered(post, reply) == [field \in DOMAIN post \cup {"reply"} |->
                             IF field = "reply" THEN reply ELSE post[field]]

no_task_error_message(high_priority) ==
    IF high_priority THEN "Failed to acquire next high priority query from server:"
    ELSE "Failed to acquire next query from server:"

\* process_next of one of the two observation agents, up to the answer to
\* acquire_next_query
ObsAcquire ==
    /\ pc = "idle"
    /\ \E high_priority \in BOOLEAN, reply \in AcquireReplies, body \in Requests :
           LET query_request == acquire_next_query(reply, body)
           IN  /\ is_high_priority_queue' = high_priority
               /\ acquire_request' = Some(AcquireRequest(high_priority))
               /\ IF query_request.ok
                  THEN /\ request' = Some(query_request.val)
                       /\ pc' = "query_acquired"
                       /\ ret' = ret
                  ELSE /\ ret' = Some(AcquireError(no_task_error_message(high_priority),
                                                   query_request.err))
                       /\ pc' = "returned"
                       /\ request' = request
    /\ UNCHANGED <<global_filters, runVars, filter_config, query, scrubVars, typeVars, submitVars, pairVars, fetched, result, sent, discVars>>

\* What process_next does with the outcome of create_executor(...).await?
QueryExecutorCreated(executor) ==
    /\ pc' = IF executor.ok THEN "query_executing" ELSE "query_processed"
    /\ filter_config' = IF executor.ok THEN Ok(executor.val.filter_config) ELSE filter_config
    /\ result' = IF executor.ok THEN result ELSE executor

\* self.base.process_query(&query_request).await up to create_executor(...).await?
ObsCreateExecutor ==
    /\ pc = "query_acquired"
    /\ QueryExecutorCreated(process_query_executor(Datasources, global_filters, Unwrap(request)))
    /\ UNCHANGED <<global_filters, runVars, query, scrubVars, typeVars, submitVars, pairVars, request, fetched, sent, ret, is_high_priority_queue,
                   acquire_request, discVars>>

\* executor.execute_ts(&query_request.query).await
ObsExecute ==
    /\ pc = "query_executing"
    /\ \/ \E kind \in FetchFailures :
              /\ result' = process_query_execute([filter_config |-> filter_config.val],
                                                 [kind |-> kind, rows |-> <<>>])
              /\ fetched' = fetched
       \/ \E rows \in RecordLists :
              /\ fetched' = Some(rows)
              /\ result' = process_query_execute([filter_config |-> filter_config.val],
                                                 [kind |-> "rows", rows |-> rows])
    /\ pc' = "query_processed"
    /\ UNCHANGED <<global_filters, runVars, filter_config, query, scrubVars, typeVars, submitVars, pairVars, request, sent, ret, is_high_priority_queue,
                   acquire_request, discVars>>

\* Ok(data) => submit_results(&query_request.id, data, ..).await?
ObsSubmitResults ==
    /\ pc = "query_processed"
    /\ result.ok
    /\ \E reply \in ServerReplies :
           /\ sent' = Append(sent, Answered(SubmitTaskRequest(Unwrap(request).id, result.val,
                                                              is_high_priority_queue),
                                            reply))
           /\ ret' = Some(submit_results(reply))
           /\ pc' = ReturnAfterSubmission(submit_results(reply), "query_processed")
    /\ UNCHANGED <<global_filters, runVars, filter_config, query, scrubVars, typeVars, submitVars, pairVars, request, fetched, result, is_high_priority_queue,
                   acquire_request, discVars>>

\* Err(e) => submit_error(&query_request.id, &error_msg, ..).await; return Err(e)
ObsSubmitError ==
    /\ pc = "query_processed"
    /\ ~result.ok
    /\ \E reply \in ServerReplies :
           /\ sent' = Append(sent, Answered(ErrorSubmissionRequest(Unwrap(request).id,
                                                                   result.err,
                                                                   is_high_priority_queue),
                                            reply))
           /\ ret' = Some(ReturnOriginalError(result.err, submit_error(reply)))
    /\ pc' = "returned"
    /\ UNCHANGED <<global_filters, runVars, filter_config, query, scrubVars, typeVars, submitVars, pairVars, request, fetched, result, is_high_priority_queue,
                   acquire_request, discVars>>

AgentConfigs ==
    {None,
     Some([sql_filters_exclude |-> Some(<<BlockA>>), sql_filters_allow |-> None]),
     Some([sql_filters_exclude |-> Some(<<BlockB>>), sql_filters_allow |-> None]),
     Some([sql_filters_exclude |-> Some(<<BlockBad>>), sql_filters_allow |-> None])}

AgentInit ==
    /\ global_filters \in AgentConfigs
    /\ filter_config = NotBuilt
    /\ query = NoQuery
    /\ ScrubIdle
    /\ TypeIdle
    /\ SubmitIdle
    /\ PairIdle
    /\ AgentIdle
    /\ RunIdle
    /\ DiscIdle

ObsNext ==
    \/ ObsAcquire
    \/ ObsCreateExecutor
    \/ ObsExecute
    \/ ObsSubmitResults
    \/ ObsSubmitError

AgentNext == JobNext \/ ObsNext

SpecAgent == AgentInit /\ [][AgentNext]_vars

\* Agent::run: the arm of `match self.process_next().await`. The messages
\* that contain "No tasks available" or "No jobs available" are those of a
\* failed acquire, which start with the acquire's own words.
run_arm(res) ==
    IF res.ok THEN "ok"
    ELSE IF res.err[1] \in {no_task_error_message(TRUE), no_task_error_message(FALSE),
                            "Failed to acquire next job from server:"}
         THEN (IF res.err[2] \in {"No tasks available", "No jobs available"}
               THEN "warn" ELSE "error")
         ELSE "error"

\* A loop that is left when process_next failed with anything but an empty queue.
run_break_on_error(res) == IF run_arm(res) = "error" THEN "stopped" ELSE "idle"

\* Agent::run: `loop` has no break and no return; after the sleep the next
\* iteration calls process_next again.
run_next_iteration(res) == "idle"

\* Agent::run from the return of process_next: the match logs the outcome,
\* tokio::time::sleep(1s) elapses, and the loop starts over with everything
\* the call held dropped.
RunSleep ==
    /\ pc = "returned"
    /\ IsSome(ret)
    /\ handled' = Some(run_arm(Unwrap(ret)))
    /\ pc' = run_next_iteration(Unwrap(ret))
    /\ filter_config' = NotBuilt
    /\ request' = None
    /\ fetched' = None
    /\ result' = NoResult
    /\ sent' = <<>>
    /\ ret' = None
    /\ is_high_priority_queue' = FALSE
    /\ acquire_request' = None
    /\ UNCHANGED <<global_filters, query, scrubVars, typeVars, submitVars, pairVars, discVars>>

RunNext == AgentNext \/ RunSleep

\* The runtime keeps polling the task that runs the loop, every request is
\* answered or fails, and the sleep elapses: a step that can be taken is taken.
SpecRun == AgentInit /\ [][RunNext]_vars /\ WF_vars(RunNext)

\* A row the scrubber lets through under the agent's configured filters.
RowClean(row) == ~HasExcludedColumn(row) /\ ~HasExcludedString(row)

\* C7: the records of every job-results submission are the rows the store
\* returned for the job query that pass the scrubber under the configured
\* global filters, in the store's order; no other row is submitted.
C7_JobSubmitsScrubbedRows ==
    \A i \in 1..Len(sent) :
        sent[i].kind = "job_results"
        => (IsSome(fetched) /\ sent[i].records = SelectSeq(Unwrap(fetched), RowClean))

C7_Witness ==
    /\ Len(sent) = 1
    /\ sent[1].kind = "job_results"
    /\ sent[1].reply = "ok"
    /\ Len(Unwrap(fetched)) = 2
    /\ Len(sent[1].records) = 1
    /\ HasExcludedString(Unwrap(fetched)[1])
    /\ ~HasExcludedColumn(Unwrap(fetched)[1])

-----------------------------------------------------------------------------
(* Schema discovery: ClickhouseExecutor::discover_schemas, get_databases,  *)
(* get_tables, discover_tables and discover_table_schema                   *)
(* (src/executors/clickhouse_source.rs)                                    *)

MaxTables == 2

\* Native column types of the store.
TypeInt32 == <<"I", "n", "t", "3", "2">>

TypeString == <<"S", "t", "r", "i", "n", "g">>

TypeFloat64 == <<"F", "l", "o", "a", "t", "6", "4">>

TypeDateTime64 == <<"D", "a", "t", "e", "T", "i", "m", "e", "6", "4">>

\* SELECT name FROM system.databases, when it succeeds.
StoreDatabases == <<system, NamePS, INFORMATION_SCHEMA, NameQ, information_schema>>

\* SHOW TABLES FROM ps: the lists the model draws from, in the store's order.
TableNames == <<NamePS, NamePQ, NameQ>>

TableLists ==
    {SelectSeq(TableNames, LAMBDA t : t \in chosen) :
        chosen \in {c \in SUBSET {NamePS, NamePQ, NameQ} : Cardinality(c) <= MaxTables}}

\* SHOW TABLES of every database of the store.
Stores ==
    {[db \in {StoreDatabases[i] : i \in 1..Len(StoreDatabases)} |->
         IF db = NamePS THEN ps_tables
         ELSE IF db = NameQ THEN <<NamePQ, NamePS>>
         ELSE <<NamePS>>] : ps_tables \in TableLists}

\* SELECT name, type FROM system.columns WHERE ... table = '<table>', when it succeeds.
StoreColumns(table) ==
    CASE table = NamePS -> <<[name |-> NamePS, type_ |-> TypeInt32],
                             [name |-> NameQ, type_ |-> TypeString]>>
      [] table = NamePQ -> <<[name |-> NameQ, type_ |-> TypeDateTime64]>>
      [] OTHER -> <<[name |-> NamePS, type_ |-> TypeFloat64]>>

\* QueryError::ExecutionError(format!("<message> {}: {}", args.., e)) around a
\* failed query, or ExecutionError(e.to_string()) when message is empty.  The
\* source is the text of the client's own error (a timeout, a refused
\* connection), which says nothing of the query.
ExecutionError(message, args) ==
    [variant |-> "ExecutionError", message |-> message, args |-> args,
     source |-> "store error"]

\* One query sent to the store and whether it succeeded.
Query(kind, db, table, column, ok) ==
    [kind |-> kind, db |-> db, table |-> table, column |-> column, ok |-> ok]

Issue(q) == issued (+) SetToBag({q})

\* str::starts_with
StartsWith(text, prefix) ==
    Len(text) >= Len(prefix) /\ SubSeq(text, 1, Len(prefix)) = prefix

\* simplify_type taking every name that begins with Date for a date.
simplify_type_date_prefix(ch_type) ==
    IF StartsWith(ch_type, <<"I", "n", "t">>) \/ StartsWith(ch_type, <<"U", "I", "n", "t">>)
    THEN "int"
    ELSE IF StartsWith(ch_type, <<"F", "l", "o", "a", "t">>) THEN "float"
    ELSE IF ch_type = <<"B", "o", "o", "l">> \/ ch_type = <<"B", "o", "o", "l", "e", "a", "n">>
    THEN "bool"
    ELSE IF StartsWith(ch_type, <<"D", "a", "t", "e">>) THEN "date"
    ELSE "string"

simplify_type(ch_type) ==
    IF StartsWith(ch_type, <<"I", "n", "t">>) \/ StartsWith(ch_type, <<"U", "I", "n", "t">>)
    THEN "int"
    ELSE IF StartsWith(ch_type, <<"F", "l", "o", "a", "t">>) THEN "float"
    ELSE IF ch_type = <<"B", "o", "o", "l">> \/ ch_type = <<"B", "o", "o", "l", "e", "a", "n">>
    THEN "bool"
    ELSE IF ch_type = <<"D", "a", "t", "e">> THEN "date"
    ELSE IF StartsWith(ch_type, <<"D", "a", "t", "e", "T", "i", "m", "e">>) THEN "datetime"
    ELSE "string"

\* get_databases with every listed database kept.
AllDatabases(fc, listed) == listed

\* get_databases: .filter(|db| !self.filter_config.should_exclude_database(db))
FilterDatabases(fc, listed) ==
    SelectSeq(listed, LAMBDA db : ~FilterConfig_should_exclude_database(fc, db))

\* get_tables with every listed table kept.
AllTables(fc, listed) == listed

\* get_tables: .filter(|table| !self.filter_config.should_exclude_table(table))
FilterTables(fc, listed) ==
    SelectSeq(listed, LAMBDA table : ~FilterConfig_should_exclude_table(fc, table))

\* discover_tables: tokio::spawn of discover_table_schema for each table.
SpawnTasks(db, tables) ==
    [i \in 1..Len(tables) |->
        [db |-> db, table |-> tables[i], pc |-> "columns", columns |-> <<>>,
         column_info |-> <<>>, outcome |-> None]]

\* discover_table_schema skipping the columns an exclude pattern matches and
\* probing those that only fail the allow list.
ColumnSkippedOnExcludeMatch(fc, name) ==
    /\ IsSome(fc.sql_filters)
    /\ AnyMatch(Unwrap(fc.sql_filters).exclude_column_name_patterns, name)

\* discover_table_schema with no column skipped.
ColumnNeverSkipped(fc, name) == FALSE

\* discover_table_schema: if filter_config.should_exclude_column(&name) { continue; }
ColumnSkipped(fc, name) == FilterConfig_should_exclude_column(fc, name)

\* The probe with a failure reported as a cardinality of zero.
ProbeResultOrZero(ok) == IF ok THEN Some(3) ELSE Some(0)

\* match client.query(&cardinality_query).fetch_one().await
\*     { Ok(count) => Some(count), Err(e) => { log::warn!(...); None } }
ProbeResult(ok) == IF ok THEN Some(3) ELSE None

\* column_info.insert(name, ColumnInfo { type_name: simplify_type(&type_), cardinality })
InsertColumn(column_info, column, cardinality) ==
    [n \in (DOMAIN column_info) \cup {column.name} |->
        IF n = column.name
        THEN [type_name |-> simplify_type(column.type_), cardinality |-> cardinality]
        ELSE column_info[n]]

\* A schema that reports no rows for a table none of whose columns was kept.
TableSchemaRowsByColumns(task, row_count) ==
    [database |-> task.db, table |-> task.table,
     row_count |-> IF DOMAIN task.column_info = {} THEN 0 ELSE row_count,
     columns |-> task.column_info]

\* Ok(TableSchema { database, table, row_count, columns })
TableSchema(task, row_count) ==
    [database |-> task.db, table |-> task.table, row_count |-> row_count,
     columns |-> task.column_info]

\* discover_tables with a failed table discarding what was pushed before it.
PushOrReset(pushed, outcome) ==
    IF outcome.ok THEN Append(pushed, outcome.val) ELSE <<>>

\* discover_tables: Ok(Ok(schema)) => table_schemas.push(schema), Ok(Err(e)) => log
PushSchema(pushed, outcome) ==
    IF outcome.ok THEN Append(pushed, outcome.val) ELSE pushed

\* discover_schemas goes on after the tables of the database at db_index:
\* the next iteration of the loop over the databases, or Ok(schemas).
NextDatabase(gathered) ==
    /\ schemas' = gathered
    /\ IF db_index < Len(databases)
       THEN /\ db_index' = db_index + 1
            /\ dpc' = "listing"
            /\ disc_ret' = disc_ret
       ELSE /\ db_index' = db_index
            /\ dpc' = "returned"
            /\ disc_ret' = Some(Ok(gathered))

\* discover_schemas up to the answer to get_databases
DiscGetDatabases ==
    /\ dpc = "idle"
    /\ filter_config.ok
    /\ \E ok \in BOOLEAN :
           /\ issued' = Issue(Query("databases", <<>>, <<>>, <<>>, ok))
           /\ IF ~ok
              THEN /\ disc_ret' = Some(Err(ExecutionError("Failed to get databases list", <<>>)))
                   /\ dpc' = "returned"
                   /\ UNCHANGED <<databases, db_index>>
              ELSE /\ databases' = FilterDatabases(filter_config.val, StoreDatabases)
                   /\ IF databases' = <<>>
                      THEN /\ disc_ret' = Some(Ok(schemas))
                           /\ dpc' = "returned"
                           /\ db_index' = db_index
                      ELSE /\ disc_ret' = disc_ret
                           /\ dpc' = "listing"
                           /\ db_index' = 1
    /\ UNCHANGED <<global_filters, runVars, filter_config, query, scrubVars, typeVars, submitVars, pairVars, agentVars,
                   store, tasks, joined, finished, table_schemas, schemas>>

\* A failed table listing ending the run with what was gathered so far.
TablesListingPartial(db, gathered) == Ok(gathered)

\* self.get_tables(&db).await.map_err(|e| ExecutionError(format!(
\*     "Failed to get tables for database {}: {}", db, e)))?
TablesListingError(db, gathered) ==
    Err(ExecutionError("Failed to get tables for database", <<db>>))

\* The loop body up to the answer to get_tables(&db); discover_tables then
\* spawns one task per table and, with no table, returns at once.
DiscGetTables ==
    /\ dpc = "listing"
    /\ \E ok \in BOOLEAN :
           /\ issued' = Issue(Query("tables", databases[db_index], <<>>, <<>>, ok))
           /\ IF ~ok
              THEN /\ disc_ret' = Some(TablesListingError(databases[db_index], schemas))
                   /\ dpc' = "returned"
                   /\ UNCHANGED <<db_index, tasks, joined, finished, table_schemas, schemas>>
              ELSE /\ tasks' = SpawnTasks(databases[db_index],
                                          FilterTables(filter_config.val,
                                                       store[databases[db_index]]))
                   /\ joined' = 0
                   /\ finished' = <<>>
                   /\ table_schemas' = <<>>
                   /\ IF tasks' = <<>>
                      THEN NextDatabase(schemas)
                      ELSE /\ dpc' = "joining"
                           /\ UNCHANGED <<db_index, schemas, disc_ret>>
    /\ UNCHANGED <<global_filters, runVars, filter_config, query, scrubVars, typeVars, submitVars, pairVars, agentVars,
                   store, databases>>

\* discover_table_schema of task i up to the answer to the columns query
TaskColumns(i) ==
    /\ tasks[i].pc = "columns"
    /\ \E ok \in BOOLEAN :
           /\ issued' = Issue(Query("columns", tasks[i].db, tasks[i].table, <<>>, ok))
           /\ tasks' = [tasks EXCEPT ![i] =
                  IF ok
                  THEN [@ EXCEPT !.pc = "probe", !.columns = StoreColumns(tasks[i].table)]
                  ELSE [@ EXCEPT !.pc = "done",
                                 !.outcome = Some(Err(ExecutionError("", <<>>)))]]
           /\ finished' = IF ok THEN finished ELSE Append(finished, i)
    /\ UNCHANGED <<global_filters, runVars, filter_config, query, scrubVars, typeVars, submitVars, pairVars, agentVars,
                   store, dpc, databases, db_index, joined, table_schemas, schemas, disc_ret>>

\* One iteration of the loop over the columns of task i: an excluded column is
\* skipped, any other is probed and inserted, with the cardinality if the
\* probe succeeded.
TaskColumn(i) ==
    /\ tasks[i].pc = "probe"
    /\ tasks[i].columns # <<>>
    /\ IF ColumnSkipped(filter_config.val, Head(tasks[i].columns).name)
       THEN /\ tasks' = [tasks EXCEPT ![i].columns = Tail(@)]
            /\ issued' = issued
       ELSE \E ok \in BOOLEAN :
                /\ issued' = Issue(Query("probe", tasks[i].db, tasks[i].table,
                                         Head(tasks[i].columns).name, ok))
                /\ tasks' = [tasks EXCEPT ![i] =
                       [@ EXCEPT !.columns = Tail(@),
                                 !.column_info =
                                     InsertColumn(@, Head(tasks[i].columns),
                                                  ProbeResult(ok))]]
    /\ UNCHANGED <<global_filters, runVars, filter_config, query, scrubVars, typeVars, submitVars, pairVars, agentVars,
                   store, dpc, databases, db_index, joined, finished, table_schemas, schemas,
                   disc_ret>>

\* discover_table_schema of task i from the end of the column loop: the row count
TaskCount(i) ==
    /\ tasks[i].pc = "probe"
    /\ tasks[i].columns = <<>>
    /\ \E ok \in BOOLEAN :
           /\ issued' = Issue(Query("count", tasks[i].db, tasks[i].table, <<>>, ok))
           /\ tasks' = [tasks EXCEPT ![i] =
                  [@ EXCEPT !.pc = "done",
                            !.outcome =
                                IF ok THEN Some(Ok(TableSchema(tasks[i], 5)))
                                ELSE Some(Err(ExecutionError("Failed to get row count for",
                                                             <<tasks[i].db, tasks[i].table>>)))]]
           /\ finished' = Append(finished, i)
    /\ UNCHANGED <<global_filters, runVars, filter_config, query, scrubVars, typeVars, submitVars, pairVars, agentVars,
                   store, dpc, databases, db_index, joined, table_schemas, schemas, disc_ret>>

\* A collection loop that is left after the first task it awaited.
FirstAwaited(n, spawned) == n >= 1

\* discover_tables: the `for` loop over table_futures ends, and table_schemas
\* is returned, when every handle has been awaited.
AllAwaited(n, spawned) == n = Len(spawned)

\* A collection loop that takes the tasks as they complete instead of in the
\* order they were spawned.
FirstCompletedFuture(n) == IF n < Len(finished) THEN finished[n + 1] ELSE n + 1

\* discover_tables: `for future in table_futures` walks the handles in the
\* order the tasks were spawned; after n of them the next one is n + 1.
AwaitedFuture(n) == n + 1

\* discover_tables: future.await of the next task in spawn order; after the
\* last one discover_tables returns and schemas.extend(table_schemas) follows.
DiscJoin ==
    /\ dpc = "joining"
    /\ joined < Len(tasks)
    /\ tasks[AwaitedFuture(joined)].pc = "done"
    /\ joined' = joined + 1
    /\ table_schemas' = PushSchema(table_schemas,
                                    Unwrap(tasks[AwaitedFuture(joined)].outcome))
    /\ IF AllAwaited(joined', tasks)
       THEN NextDatabase(schemas \o table_schemas')
       ELSE UNCHANGED <<dpc, db_index, schemas, disc_ret>>
    /\ UNCHANGED <<global_filters, runVars, filter_config, query, scrubVars, typeVars, submitVars, pairVars, agentVars,
                   store, databases, tasks, finished, issued>>

\* The filter configurations discovery is run under.
DiscConfigs ==
    {None,
     Some([sql_filters_exclude |-> Some(<<BlockA>>), sql_filters_allow |-> None]),
     Some([sql_filters_exclude |-> Some(<<BlockC>>), sql_filters_allow |-> None]),
     Some([sql_filters_exclude |-> None, sql_filters_allow |-> Some(<<BlockC>>)]),
     Some([sql_filters_exclude |-> Some(<<BlockA>>), sql_filters_allow |-> Some(<<BlockC>>)]),
     Some([sql_filters_exclude |-> None, sql_filters_allow |-> Some(<<BlockB>>)]),
     Some([sql_filters_exclude |-> Some(<<BlockBad>>), sql_filters_allow |-> None])}

DiscInit ==
    /\ global_filters \in DiscConfigs
    /\ filter_config = NotBuilt
    /\ query = NoQuery
    /\ ScrubIdle
    /\ TypeIdle
    /\ SubmitIdle
    /\ PairIdle
    /\ AgentIdle
    /\ RunIdle
    /\ store \in Stores
    /\ dpc = "idle"
    /\ databases = <<>>
    /\ db_index = 0
    /\ tasks = <<>>
    /\ joined = 0
    /\ finished = <<>>
    /\ table_schemas = <<>>
    /\ schemas = <<>>
    /\ disc_ret = None
    /\ issued = EmptyBag

DiscNext ==
    \/ Construct
    \/ DiscGetDatabases
    \/ DiscGetTables
    \/ \E i \in 1..Len(tasks) : TaskColumns(i)
    \/ \E i \in 1..Len(tasks) : TaskColumn(i)
    \/ \E i \in 1..Len(tasks) : TaskCount(i)
    \/ DiscJoin

SpecDisc == DiscInit /\ [][DiscNext]_vars

-----------------------------------------------------------------------------
(* What discovery returned, and what the store was asked *)

Builtins == {system, INFORMATION_SCHEMA, information_schema}

Returned == IsSome(disc_ret) /\ Unwrap(disc_ret).ok

ReturnedSchemas == Unwrap(disc_ret).val

\* The schemas discover_schemas holds at the moment, returned or not yet.
Gathered ==
    {schemas[i] : i \in 1..Len(schemas)}
    \cup {table_schemas[i] : i \in 1..Len(table_schemas)}
    \cup (IF Returned THEN {ReturnedSchemas[i] : i \in 1..Len(ReturnedSchemas)} ELSE {})

StoreDatabaseSet == {StoreDatabases[i] : i \in 1..Len(StoreDatabases)}

StoreTableSet(db) == {store[db][i] : i \in 1..Len(store[db])}

\* How many times the store was sent the query, whatever it answered.
TimesIssued(kind, db, table) ==
    CopiesIn(Query(kind, db, table, <<>>, TRUE), issued)
    + CopiesIn(Query(kind, db, table, <<>>, FALSE), issued)

Succeeded(kind, db, table) == BagIn(Query(kind, db, table, <<>>, TRUE), issued)

Failed(kind, db, table) == BagIn(Query(kind, db, table, <<>>, FALSE), issued)

ListingFailed ==
    \/ Failed("databases", <<>>, <<>>)
    \/ \E db \in StoreDatabaseSet : Failed("tables", db, <<>>)

DatabaseExcluded(db) == db \in Builtins \/ Excluded(global_filters, "database", db)

TableExcluded(table) == Excluded(global_filters, "table", table)

ColumnExcluded(name) == Excluded(global_filters, "column_name", name)

\* C3: the built-in databases are excluded by the executor's database decision
\* under every configuration, and no database the discovery walks and no
\* schema it gathers or returns is one of them.
C3_BuiltinsAlwaysExcluded ==
    /\ filter_config.ok
       => \A db \in Builtins : FilterConfig_should_exclude_database(filter_config.val, db)
    /\ \A i \in 1..Len(databases) : databases[i] \notin Builtins
    /\ \A schema \in Gathered : schema.database \notin Builtins

C3_Witness ==
    /\ Returned
    /\ ReturnedSchemas # <<>>
    /\ Succeeded("databases", <<>>, <<>>)
    /\ MatchesAny(AllowPatterns(global_filters, "database"), system)
    /\ MatchesAny(AllowPatterns(global_filters, "database"), INFORMATION_SCHEMA)

\* C8: no schema discovery gathers or returns has an excluded column name
\* among the keys of its columns map.
C8_NoExcludedColumnReported ==
    \A schema \in Gathered : \A name \in DOMAIN schema.columns : ~ColumnExcluded(name)

C8_Witness ==
    /\ Returned
    /\ \E i \in 1..Len(ReturnedSchemas) :
           /\ ReturnedSchemas[i].table = NamePS
           /\ DOMAIN ReturnedSchemas[i].columns = {NamePS}
           /\ ColumnExcluded(NameQ)
           /\ AllowPatterns(global_filters, "column_name") # {}
           /\ ExcludePatterns(global_filters, "column_name") = {}

\* C9: every schema discovery gathers or returns is of a database that is
\* neither built-in nor excluded at the database dimension and of a table
\* that is not excluded at the table dimension.
C9_NoExcludedDatabaseOrTable ==
    \A schema \in Gathered :
        ~DatabaseExcluded(schema.database) /\ ~TableExcluded(schema.table)

C9_Witness ==
    /\ Returned
    /\ Len(ReturnedSchemas) = 1
    /\ \E db \in StoreDatabaseSet \ Builtins : DatabaseExcluded(db)
    /\ \E t \in StoreTableSet(ReturnedSchemas[1].database) : TableExcluded(t)

\* How many of the returned schemas are of the table.
TimesReturned(db, table) ==
    Cardinality({i \in 1..Len(ReturnedSchemas) :
                    ReturnedSchemas[i].database = db /\ ReturnedSchemas[i].table = table})

\* C10: when no listing failed, discovery returns Ok; every non-excluded table
\* of a non-excluded database was asked for its columns exactly once and for
\* its row count at most once; the result holds exactly one schema for each
\* such table whose two queries succeeded and none for any other table.
C10_PartialResults ==
    (dpc = "returned" /\ ~ListingFailed)
    => /\ Returned
       /\ \A db \in StoreDatabaseSet : \A table \in StoreTableSet(db) :
              IF DatabaseExcluded(db) \/ TableExcluded(table)
              THEN TimesReturned(db, table) = 0
              ELSE /\ TimesIssued("columns", db, table) = 1
                   /\ TimesIssued("count", db, table) <= 1
                   /\ TimesReturned(db, table) =
                          IF Succeeded("columns", db, table) /\ Succeeded("count", db, table)
                          THEN 1 ELSE 0
       /\ \A i \in 1..Len(ReturnedSchemas) :
              /\ ReturnedSchemas[i].database \in StoreDatabaseSet
              /\ ReturnedSchemas[i].table \in StoreTableSet(ReturnedSchemas[i].database)

C10_Witness ==
    /\ Returned
    /\ ~ListingFailed
    /\ Len(store[NamePS]) = 2
    /\ Succeeded("count", NamePS, store[NamePS][1])
    /\ Failed("count", NamePS, store[NamePS][2])
    /\ Failed("columns", NameQ, NamePQ)
    /\ Len(ReturnedSchemas) = 2
    /\ ReturnedSchemas[2].database = NameQ

-----------------------------------------------------------------------------
(* Cardinality probes *)

ProbeSucceeded(db, table, column) == BagIn(Query("probe", db, table, column, TRUE), issued)

ProbeFailed(db, table, column) == BagIn(Query("probe", db, table, column, FALSE), issued)

TimesProbed(db, table, column) ==
    CopiesIn(Query("probe", db, table, column, TRUE), issued)
    + CopiesIn(Query("probe", db, table, column, FALSE), issued)

\* The simplified type the store's columns are to be reported with.
ReportedType(table, column) ==
    CASE table = NamePS /\ column = NamePS -> "int"
      [] table = NamePS /\ column = NameQ -> "string"
      [] table = NamePQ /\ column = NameQ -> "datetime"
      [] OTHER -> "float"

StoreColumnNames(table) == {StoreColumns(table)[i].name : i \in 1..Len(StoreColumns(table))}

\* C11: in every schema discovery gathers or returns, each retained column of
\* the table was probed exactly once and is reported with its simplified type,
\* with the cardinality absent exactly when its probe failed; and a table whose
\* columns and row-count queries succeeded is returned whatever its probes did.
C11_ProbeFailureKeepsColumn ==
    /\ \A schema \in Gathered : \A name \in StoreColumnNames(schema.table) :
           ~ColumnExcluded(name)
           => /\ name \in DOMAIN schema.columns
              /\ schema.columns[name].type_name = ReportedType(schema.table, name)
              /\ TimesProbed(schema.database, schema.table, name) = 1
              /\ IF ProbeFailed(schema.database, schema.table, name)
                 THEN schema.columns[name].cardinality = None
                 ELSE schema.columns[name].cardinality = Some(3)
    /\ Returned
       => \A db \in StoreDatabaseSet : \A table \in StoreTableSet(db) :
              (/\ Succeeded("columns", db, table)
               /\ Succeeded("count", db, table)
               /\ \E name \in StoreColumnNames(table) : ProbeFailed(db, table, name))
              => TimesReturned(db, table) = 1

C11_Witness ==
    /\ Returned
    /\ \E i \in 1..Len(ReturnedSchemas) :
           /\ ReturnedSchemas[i].table = NamePS
           /\ ProbeFailed(ReturnedSchemas[i].database, NamePS, NamePS)
           /\ ProbeSucceeded(ReturnedSchemas[i].database, NamePS, NameQ)
           /\ ReturnedSchemas[i].columns[NamePS] = [type_name |-> "int", cardinality |-> None]
           /\ ReturnedSchemas[i].columns[NameQ] = [type_name |-> "string", cardinality |-> Some(3)]

-----------------------------------------------------------------------------
(* Errors of discovery *)

\* The message of the error has the name in it.
Names(err, name) == \E k \in 1..Len(err.args) : err.args[k] = name

TaskFailed(i) == tasks[i].pc = "done" /\ ~Unwrap(tasks[i].outcome).ok

\* C12: the error of every failed table discovery names the table.
C12_TableErrorNamesTable ==
    \A i \in 1..Len(tasks) :
        TaskFailed(i) => Names(Unwrap(tasks[i].outcome).err, tasks[i].table)


\* C13: once a listing failed discover_schemas has returned, with an error and
\* not with the schemas gathered before; the error of a failed table listing
\* names the database whose listing failed, the error of the failed database
\* listing says so.
C13_ListingFailureFailsRun ==
    ListingFailed
    => /\ dpc = "returned"
       /\ IsSome(disc_ret)
       /\ ~Unwrap(disc_ret).ok
       /\ \A db \in StoreDatabaseSet :
              Failed("tables", db, <<>>)
              => /\ Unwrap(disc_ret).err.message = "Failed to get tables for database"
                 /\ Unwrap(disc_ret).err.args = <<db>>
       /\ Failed("databases", <<>>, <<>>)
          => Unwrap(disc_ret).err.message = "Failed to get databases list"

C13_Witness ==
    /\ Failed("tables", NameQ, <<>>)
    /\ schemas # <<>>
    /\ IsSome(disc_ret)
    /\ ~Unwrap(disc_ret).ok
    /\ Unwrap(disc_ret).err.args = <<NameQ>>


-----------------------------------------------------------------------------
(* Tasks in flight *)

\* The per-table tasks that were spawned and have not finished.
InFlight == {i \in 1..Len(tasks) : tasks[i].pc # "done"}

\* C14: the tasks in flight never exceed a concurrency limit that is set
\* apart from the number of tables: some limit below the largest number of
\* tables a database has here bounds them at every moment.
C14_InFlightWithinLimit ==
    \E limit \in 1..(MaxTables - 1) : Cardinality(InFlight) <= limit


-----------------------------------------------------------------------------
(* Patterns that do not compile *)

AllPatterns(opt_gf) ==
    UNION {AllowPatterns(opt_gf, dim) \cup ExcludePatterns(opt_gf, dim) : dim \in Dimensions}

HasBadPattern == \E pattern \in AllPatterns(global_filters) : ~RegexNew(pattern).ok

\* C15: with a pattern that does not compile anywhere in the configuration no
\* policy is ever built and no executor exists: nothing is asked of the store,
\* nothing is discovered, scrubbed or submitted as a result, and a job for a
\* ClickHouse datasource ends with the error of the failed construction.
C15_BadPatternFailsConstruction ==
    HasBadPattern
    => /\ ~filter_config.ok
       /\ pc # "executing"
       /\ fetched = None
       /\ issued = EmptyBag
       /\ dpc = "idle"
       /\ scrub_out = None
       /\ \A i \in 1..Len(sent) : sent[i].kind # "job_results"
       /\ (/\ pc \in {"processed", "returned"}
           /\ IsSome(request)
           /\ Unwrap(request).datasource_name = "ch")
          => (~result.ok /\ result.err[2] = "Failed to create SQL filters")

C15_Witness ==
    /\ HasBadPattern
    /\ \E pattern \in AllowPatterns(global_filters, "table") : ~RegexNew(pattern).ok
    /\ ExcludePatterns(global_filters, "table") # {}
    /\ pc = "returned"
    /\ IsSome(request)
    /\ Unwrap(request).datasource_name = "ch"
    /\ Len(sent) = 1
    /\ sent[1].kind = "job_error"
    /\ sent[1].error[2] = "Failed to create SQL filters"


-----------------------------------------------------------------------------
(* The scrubber on its own output *)

\* C16: the scrubber applied to the rows it returned returns them unchanged.
C16_ScrubberIdempotent ==
    IsSome(scrub_again) => Unwrap(scrub_again) = ScrubOut

C16_Witness ==
    /\ IsSome(scrub_again)
    /\ Len(scrub_in) = 2
    /\ Len(ScrubOut) = 1
    /\ Unwrap(scrub_again) = ScrubOut
    /\ Len(ScrubOut[1]) = 2


\* The rows of out are rows of from, in the order they have there, each taken
\* from a place of its own.
RECURSIVE IsSubsequence(_, _)
IsSubsequence(out, from) ==
    IF out = <<>> THEN TRUE
    ELSE IF from = <<>> THEN FALSE
    ELSE IF Head(out) = Head(from) THEN IsSubsequence(Tail(out), Tail(from))
    ELSE IsSubsequence(out, Tail(from))

\* C17: the scrubber's output is a subsequence of its input: whole input rows,
\* in the input's order, none twice and none made up.
C17_OutputIsSubsequence ==
    Scrubbed => IsSubsequence(ScrubOut, scrub_in)

C17_Witness ==
    /\ Scrubbed
    /\ IsSome(filter_config.val.sql_filters)
    /\ ExcludePatterns(global_filters, "column_value") # {}
    /\ Len(scrub_in) = 2
    /\ scrub_in[1] # scrub_in[2]
    /\ Len(scrub_in[1]) = 2
    /\ ScrubOut = scrub_in


\* ---------------------------------------------------------------------------
\* simplify_type on its own, over native type names put together from the
\* pieces the store's type names are made of.

MaxParts == 3

Pieces ==
    {<<"I", "n", "t">>, <<"U">>, <<"F", "l", "o", "a", "t">>, <<"B", "o", "o", "l">>,
     <<"e", "a", "n">>, <<"D", "a", "t", "e">>, <<"T", "i", "m", "e">>, <<"6", "4">>,
     <<"S", "t", "r", "i", "n", "g">>, <<"i", "n", "t">>}

RECURSIVE Joined(_)
Joined(parts) ==
    IF parts = <<>> THEN <<>> ELSE Head(parts) \o Joined(Tail(parts))

NativeTypes == {Joined(parts) : parts \in SeqsUpTo(Pieces, MaxParts)}

\* simplify_type(&type_) on one name of the store.
Simplify ==
    /\ native_type # <<>>
    /\ simple_type = None
    /\ simple_type' = Some(simplify_type(native_type))
    /\ UNCHANGED <<global_filters, runVars, filter_config, query, scrubVars, submitVars, pairVars, native_type,
                   agentVars, discVars>>

\* Another name of the store is taken up.
NextType ==
    /\ IsSome(simple_type)
    /\ native_type' \in NativeTypes \ {<<>>}
    /\ simple_type' = None
    /\ UNCHANGED <<global_filters, runVars, filter_config, query, scrubVars, submitVars, pairVars, agentVars, discVars>>

TypeInit ==
    /\ global_filters = None
    /\ filter_config = NotBuilt
    /\ query = NoQuery
    /\ ScrubIdle
    /\ native_type \in NativeTypes \ {<<>>}
    /\ simple_type = None
    /\ SubmitIdle
    /\ PairIdle
    /\ AgentIdle
    /\ RunIdle
    /\ DiscIdle

TypeNext == Simplify \/ NextType

SpecType == TypeInit /\ [][TypeNext]_vars

SimpleTypes == {"int", "float", "bool", "date", "datetime", "string"}

\* The name begins with the given letters.
Begins(name, letters) ==
    \E k \in 0..Len(name) : SubSeq(name, 1, k) = letters

BeginsInt == Begins(native_type, <<"I", "n", "t">>) \/ Begins(native_type, <<"U", "I", "n", "t">>)

BeginsFloat == Begins(native_type, <<"F", "l", "o", "a", "t">>)

IsBool ==
    native_type \in {<<"B", "o", "o", "l">>, <<"B", "o", "o", "l", "e", "a", "n">>}

IsDate == native_type = <<"D", "a", "t", "e">>

BeginsDateTime == Begins(native_type, <<"D", "a", "t", "e", "T", "i", "m", "e">>)

\* C18: every native type name is given exactly one of the six simple names:
\* int for a name that begins with Int or UInt, float for one that begins with
\* Float, bool for Bool and Boolean, date for Date, datetime for one that begins
\* with DateTime, string for every other name.
C18_SimplifyTypeTable ==
    IsSome(simple_type) =>
        /\ Unwrap(simple_type) \in SimpleTypes
        /\ BeginsInt => Unwrap(simple_type) = "int"
        /\ BeginsFloat => Unwrap(simple_type) = "float"
        /\ IsBool => Unwrap(simple_type) = "bool"
        /\ IsDate => Unwrap(simple_type) = "date"
        /\ BeginsDateTime => Unwrap(simple_type) = "datetime"
        /\ ~(BeginsInt \/ BeginsFloat \/ IsBool \/ IsDate \/ BeginsDateTime)
               => Unwrap(simple_type) = "string"

C18_Witness ==
    /\ native_type = <<"D", "a", "t", "e", "T", "i", "m", "e", "6", "4">>
    /\ simple_type = Some("datetime")


\* The configured datasource the acquired task or job names, if there is one.
RequestedDatasources ==
    IF ~IsSome(request) THEN {}
    ELSE {Datasources[k] : k \in {j \in 1..Len(Datasources) :
                                     Datasources[j].name = Unwrap(request).datasource_name}}

Unimplemented == {"PostgreSQL", "MySQL", "Prometheus"}

ForUnimplemented == \E ds \in RequestedDatasources : ds.source_type \in Unimplemented

ResultKinds == {"job_results", "task_results"}

ErrorKinds == {"job_error", "task_error"}

\* C19: a task or job for a PostgreSQL, MySQL or Prometheus datasource gets no
\* executor and no query: nothing is fetched, processing yields an error and
\* never a result, no results are submitted, and process_next returns an error.
C19_UnimplementedFailsCleanly ==
    ForUnimplemented =>
        /\ IsNotBuilt(filter_config)
        /\ pc \notin {"executing", "query_executing"}
        /\ fetched = None
        /\ ~result.ok
        /\ \A i \in 1..Len(sent) : sent[i].kind \notin ResultKinds
        /\ pc = "returned" => (IsSome(ret) /\ ~Unwrap(ret).ok /\ Len(sent) = 1
                               /\ sent[1].kind \in ErrorKinds)

C19_Witness ==
    /\ ForUnimplemented
    /\ Unwrap(request).datasource_name = "prom"
    /\ pc = "returned"
    /\ sent[1].kind = "task_error"
    /\ sent[1].error = <<"Prometheus executor not implemented">>
    /\ sent[1].reply = "ok"

\* The acquired task or job was processed and the processing failed.
ProcessingFailed ==
    /\ pc = "returned"
    /\ IsSome(request)
    /\ ~result.ok

\* C20: when the processing of an acquired task or job fails, process_next
\* submits that error under the acquired id, once, and returns that error,
\* whatever the server answers to the submission.
C20_ErrorSubmittedAndReturned ==
    ProcessingFailed =>
        /\ Len(sent) = 1
        /\ sent[1].kind \in ErrorKinds
        /\ sent[1].id = Unwrap(request).id
        /\ sent[1].error = result.err
        /\ ret = Some(Err(result.err))

C20_Witness ==
    /\ ProcessingFailed
    /\ Unwrap(request).id = "2"
    /\ sent[1].kind = "job_error"
    /\ sent[1].reply = "server_error"
    /\ sent[1].error = <<"Query execution error for query:", "ExecutionError", "status">>
    /\ ret = Some(Err(sent[1].error))


\* process_next of an observation agent has returned after its task was acquired.
TaskReturned == pc = "returned" /\ IsSome(request) /\ IsSome(acquire_request)

\* C21: an observation agent posts the results of a task it processed under the
\* acquired task's id and with the flag of its acquire request, and returns Ok
\* exactly when the server accepted them; its error posts carry that flag too.
C21_ResultsForAcquiredTask ==
    /\ \A i \in 1..Len(sent) :
           sent[i].kind \in {"task_results", "task_error"}
           => /\ IsSome(acquire_request)
              /\ sent[i].is_high_priority_queue = Unwrap(acquire_request).is_high_priority_queue
              /\ sent[i].id = Unwrap(request).id
    /\ (TaskReturned /\ result.ok)
           => /\ Len(sent) = 1
              /\ sent[1].kind = "task_results"
              /\ sent[1].records = result.val
              /\ Unwrap(ret).ok <=> sent[1].reply = "ok"

C21_Witness ==
    /\ TaskReturned
    /\ result.ok
    /\ Unwrap(acquire_request).is_high_priority_queue
    /\ sent[1].is_high_priority_queue
    /\ sent[1].id = "2"
    /\ Len(sent[1].records) = 2
    /\ sent[1].reply = "ok"
    /\ Unwrap(ret).ok


\* process_next has returned without a task or job: acquiring it failed.
AcquireFailed == pc = "returned" /\ request = None

AcquireContexts ==
    {"Failed to acquire next job from server:", "Failed to acquire next query from server:",
     "Failed to acquire next high priority query from server:"}

\* What the client reports when the server has nothing to hand out.
NothingAvailable == {<<"No tasks available">>, <<"No jobs available">>}

\* C22: when acquiring the next task or job fails, process_next returns an
\* error that says so, no executor is made, no query is run and nothing is
\* posted to the server, neither results nor an error.
C22_AcquireFailureOnlyReturns ==
    AcquireFailed =>
        /\ IsSome(ret)
        /\ ~Unwrap(ret).ok
        /\ Head(Unwrap(ret).err) \in AcquireContexts
        /\ sent = <<>>
        /\ fetched = None
        /\ result = NoResult
        /\ IsNotBuilt(filter_config)

C22_Witness ==
    /\ AcquireFailed
    /\ IsSome(acquire_request)
    /\ Tail(Unwrap(ret).err) \in NothingAvailable
    /\ sent = <<>>


\* ---------------------------------------------------------------------------
\* Startup discovery: discover_and_submit_schemas over the configured
\* datasources, discover_datasource step by step for each of them.

MaxDatasources == 3

\* The datasources a configuration may list: the store, a stub, one without host.
ConfiguredDatasources == {Datasources[1], Datasources[2], Datasources[5]}

DatasourceLists == SeqsUpTo(ConfiguredDatasources, MaxDatasources)

\* What discover_schemas may return: its course is that of SpecDisc.
DiscoverOutcomes ==
    {Err(<<"ExecutionError", "Failed to get databases">>),
     Ok(<<>>),
     Ok(<<[database |-> NamePS, table |-> NamePS]>>)}

\* ServerClient::add_datasource
add_datasource(reply) ==
    CASE reply = "send_error" -> Err(<<"Failed to send add datasource request">>)
      [] reply \in {"not_found", "server_error"} ->
            Err(<<"Failed to update existed or create a new datasource", reply>>)
      [] reply = "ok" -> Ok(<<>>)

\* A submission that leaves the discovered schemas out.
SchemaSubmissionEmpty(datasource_name, schemas_found) ==
    [kind |-> "schemas", datasource_name |-> datasource_name, schemas |-> <<>>]

\* ServerClient::submit_schemas: the POST to /datasource/<name>/discovery with
\* SchemaSubmissionRequest { schemas }.
SchemaSubmission(datasource_name, schemas_found) ==
    [kind |-> "schemas", datasource_name |-> datasource_name, schemas |-> schemas_found]

\* ServerClient::submit_schemas, given the server's reply
submit_schemas(reply) ==
    CASE reply = "send_error" -> Err(<<"Failed to send submit schemas request">>)
      [] reply \in {"not_found", "server_error"} -> Err(<<"Failed to submit schemas", reply>>)
      [] reply = "ok" -> Ok(<<>>)

\* ClickhouseExecutor::connect: the outcome of execute_ts("SELECT 1"), its rows dropped.
connect(executor, reply) ==
    IF execute_ts(executor, reply).ok THEN Ok(<<>>) ELSE execute_ts(executor, reply)

\* discover_and_submit_schemas giving up at the first datasource that failed.
discover_and_submit_stop_on_error(res, more) ==
    IF ~res.ok THEN [pc |-> "done", ret |-> Some(res)]
    ELSE IF more THEN [pc |-> "add", ret |-> None]
    ELSE [pc |-> "done", ret |-> Some(Ok(<<>>))]

\* discover_and_submit_schemas after one discover_datasource: the error is
\* logged, the loop goes on, and after the last datasource Ok(()) is returned.
discover_and_submit_next(res, more) ==
    IF more THEN [pc |-> "add", ret |-> None]
    ELSE [pc |-> "done", ret |-> Some(Ok(<<>>))]

\* The step of discover_datasource that was just taken, and whether it succeeded.
StepTaken(name, ok) ==
    steps' = Append(steps, [datasource |-> configured[ds_index].name, step |-> name,
                            ok |-> ok])

\* discover_datasource returns res; the loop takes up the next datasource.
DatasourceDone(res) ==
    /\ outcomes' = Append(outcomes, res)
    /\ ds_index' = ds_index + 1
    /\ spc' = discover_and_submit_next(res, ds_index < Len(configured)).pc
    /\ das_ret' = discover_and_submit_next(res, ds_index < Len(configured)).ret

\* One step of discover_datasource ended with res: on Ok the next step is due,
\* on Err the ? returns it.
StepEnded(name, res, next_step) ==
    /\ StepTaken(name, res.ok)
    /\ IF res.ok
       THEN /\ spc' = next_step
            /\ UNCHANGED <<ds_index, outcomes, das_ret>>
       ELSE DatasourceDone(res)

\* for datasource in datasources
StartDiscovery ==
    /\ spc = "idle"
    /\ ds_index = 0
    /\ ds_index' = 1
    /\ spc' = IF configured = <<>> THEN "done" ELSE "add"
    /\ das_ret' = IF configured = <<>> THEN Some(Ok(<<>>)) ELSE None
    /\ UNCHANGED <<global_filters, runVars, filter_config, query, scrubVars, typeVars, pairVars, agentVars,
                   discVars, configured, steps, outcomes, ds_schemas, posted>>

\* server_client.add_datasource(&datasource.name, ..).await?
DsAddDatasource ==
    /\ spc = "add"
    /\ \E reply \in ServerReplies : StepEnded("add_datasource", add_datasource(reply), "create")
    /\ UNCHANGED <<global_filters, runVars, filter_config, query, scrubVars, typeVars, pairVars, agentVars,
                   discVars, configured, ds_schemas, posted>>

\* create_executor(datasource, global_filters).await?
DsCreateExecutor ==
    /\ spc = "create"
    /\ StepEnded("create_executor", create_executor(configured[ds_index], global_filters),
                 "connect")
    /\ UNCHANGED <<global_filters, runVars, filter_config, query, scrubVars, typeVars, pairVars, agentVars,
                   discVars, configured, ds_schemas, posted>>

\* executor.connect().await?
DsConnect ==
    /\ spc = "connect"
    /\ \E kind \in {"rows"} \cup FetchFailures :
           StepEnded("connect", connect(<<>>, [kind |-> kind, rows |-> <<>>]), "discover")
    /\ UNCHANGED <<global_filters, runVars, filter_config, query, scrubVars, typeVars, pairVars, agentVars,
                   discVars, configured, ds_schemas, posted>>

\* executor.discover_schemas().await?
DsDiscoverSchemas ==
    /\ spc = "discover"
    /\ \E schemas_found \in DiscoverOutcomes :
           /\ StepEnded("discover_schemas", schemas_found, "submit")
           /\ ds_schemas' = IF schemas_found.ok THEN Some(schemas_found.val) ELSE None
    /\ UNCHANGED <<global_filters, runVars, filter_config, query, scrubVars, typeVars, pairVars, agentVars,
                   discVars, configured, posted>>

\* server_client.submit_schemas(&datasource.name, schemas).await?; Ok(())
DsSubmitSchemas ==
    /\ spc = "submit"
    /\ \E reply \in ServerReplies :
           /\ posted' = Append(posted, Answered(SchemaSubmission(configured[ds_index].name,
                                                                  Unwrap(ds_schemas)),
                                                 reply))
           /\ StepTaken("submit_schemas", submit_schemas(reply).ok)
           /\ DatasourceDone(submit_schemas(reply))
    /\ UNCHANGED <<global_filters, runVars, filter_config, query, scrubVars, typeVars, pairVars, agentVars,
                   discVars, configured, ds_schemas>>

StartupConfigs ==
    {None, Some([sql_filters_exclude |-> Some(<<BlockBad>>), sql_filters_allow |-> None])}

StartupInit ==
    /\ global_filters \in StartupConfigs
    /\ filter_config = NotBuilt
    /\ query = NoQuery
    /\ ScrubIdle
    /\ TypeIdle
    /\ configured \in DatasourceLists
    /\ ds_index = 0
    /\ spc = "idle"
    /\ steps = <<>>
    /\ outcomes = <<>>
    /\ das_ret = None
    /\ ds_schemas = None
    /\ posted = <<>>
    /\ PairIdle
    /\ AgentIdle
    /\ RunIdle
    /\ DiscIdle

StartupNext ==
    \/ StartDiscovery
    \/ DsAddDatasource
    \/ DsCreateExecutor
    \/ DsConnect
    \/ DsDiscoverSchemas
    \/ DsSubmitSchemas

SpecStartup == StartupInit /\ [][StartupNext]_vars

\* The datasources discover_datasource was started for, in the order of the starts.
Attempted ==
    LET starts == SelectSeq(steps, LAMBDA taken : taken.step = "add_datasource")
    IN  [k \in 1..Len(starts) |-> starts[k].datasource]

ConfiguredNames == [k \in 1..Len(configured) |-> configured[k].name]

\* C23: discover_and_submit_schemas attempts every configured datasource, in
\* the configured order, whether the ones before it failed or not, and
\* returns Ok.
C23_EveryDatasourceAttempted ==
    /\ spc \notin {"idle", "done"}
           => /\ ds_index \in 1..Len(configured)
              /\ Attempted = SubSeq(ConfiguredNames, 1,
                                    IF spc = "add" THEN ds_index - 1 ELSE ds_index)
    /\ IsSome(das_ret)
           => /\ spc = "done"
              /\ Unwrap(das_ret) = Ok(<<>>)
              /\ Attempted = ConfiguredNames
              /\ Len(outcomes) = Len(configured)

C23_Witness ==
    /\ IsSome(das_ret)
    /\ Len(configured) = 3
    /\ ~outcomes[1].ok
    /\ steps[1].datasource = "ch"
    /\ ~outcomes[2].ok
    /\ outcomes[3].ok
    /\ Attempted = ConfiguredNames


\* The candidate asked about passes the allow set of its dimension.
PassesAllow ==
    \/ AllowPatterns(global_filters, query.fn) = {}
    \/ MatchesAny(AllowPatterns(global_filters, query.fn), query.arg)

\* C24: in each dimension a candidate is included exactly when it passes the
\* allow set (empty, or one of its patterns matches) and no exclude pattern
\* matches it; so a candidate matching both an allow and an exclude pattern
\* is excluded.
C24_ExcludeOverAllow ==
    Asked =>
        /\ Unwrap(query.sql) = ~(PassesAllow
                                 /\ ~MatchesAny(ExcludePatterns(global_filters, query.fn),
                                                query.arg))
        /\ (/\ MatchesAny(AllowPatterns(global_filters, query.fn), query.arg)
            /\ MatchesAny(ExcludePatterns(global_filters, query.fn), query.arg))
           => Unwrap(query.sql) = TRUE

C24_Witness ==
    /\ Asked
    /\ query.fn = "column_name"
    /\ MatchesAny(AllowPatterns(global_filters, query.fn), query.arg)
    /\ MatchesAny(ExcludePatterns(global_filters, query.fn), query.arg)
    /\ Unwrap(query.sql) = TRUE


\* No value of the row is a string.
NoStrings(row) == \A i \in 1..Len(row) : row[i].value.kind # "string"

\* The text of some value of the row fails the value dimension's decision.
HasExcludedText(row) ==
    \E i \in 1..Len(row) : Excluded(global_filters, "column_value", row[i].value.text)

NoFieldPatterns ==
    \A dim \in {"column_name", "column_value"} :
        AllowPatterns(global_filters, dim) = {} /\ ExcludePatterns(global_filters, dim) = {}

\* C26: without patterns for column names and values, be it without global
\* filters or with filters on databases and tables only, the scrubber returns
\* the rows it was given: the same rows in the same order.
C26_NoFieldPatternsPassThrough ==
    (Scrubbed /\ NoFieldPatterns) => ScrubOut = scrub_in

C26_Witness ==
    /\ Scrubbed
    /\ NoFieldPatterns
    /\ ExcludePatterns(global_filters, "database") # {}
    /\ AllowPatterns(global_filters, "table") # {}
    /\ Len(scrub_in) = 2
    /\ scrub_in[1] # scrub_in[2]
    /\ Len(scrub_in[1]) = 2
    /\ scrub_in[1][1].value.kind = "string"
    /\ Matches(PatStartP, scrub_in[1][1].value.text)
    /\ ScrubOut = scrub_in


\* The cardinality probes sent to the store so far.
Probes == {q \in BagToSet(issued) : q.kind = "probe"}

\* C27: at no point of a discovery has a cardinality probe been sent for a
\* column whose name is excluded at the column-name dimension.
C27_NoProbeForExcludedColumn ==
    \A q \in Probes : ~ColumnExcluded(q.column)

C27_Witness ==
    /\ Returned
    /\ AllowPatterns(global_filters, "column_name") # {}
    /\ ColumnExcluded(NameQ)
    /\ NameQ \in StoreColumnNames(NamePS)
    /\ \E db \in StoreDatabaseSet :
           /\ TimesProbed(db, NamePS, NamePS) = 1
           /\ TimesProbed(db, NamePS, NameQ) = 0
           /\ Succeeded("count", db, NamePS)


\* ---------------------------------------------------------------------------
\* Two policies side by side: each built from its own configuration and asked
\* for the same decision.

\* BlockA with the database patterns in the other order.
BlockAr == [BlockA EXCEPT !.database_regexes = Some(<<PatStartP, PatEndS>>)]

\* BlockA split in two: what BlockA1 lacks of it, BlockA2 holds.
BlockA1 ==
    [database_regexes |-> Some(<<PatEndS>>),
     table_regexes |-> Some(<<PatEndS>>),
     column_name_regexes |-> None,
     column_value_regexes |-> Some(<<>>)]

BlockA2 ==
    [database_regexes |-> Some(<<PatStartP>>),
     table_regexes |-> None,
     column_name_regexes |-> Some(<<>>),
     column_value_regexes |-> Some(<<PatPS>>)]

\* A block that has the value patterns of BlockA and differs from it in the
\* other three dimensions.
BlockE ==
    [database_regexes |-> Some(<<PatAny>>),
     table_regexes |-> Some(<<PatStartP>>),
     column_name_regexes |-> Some(<<PatAny>>),
     column_value_regexes |-> Some(<<PatPS>>)]

PairRuleLists ==
    {<<BlockA>>, <<BlockAr>>, <<BlockA1, BlockA2>>, <<BlockA2, BlockA1>>, <<BlockA2>>,
     <<BlockC>>, <<BlockA, BlockC>>, <<BlockC, BlockAr>>, <<BlockE>>}

PairConfigs ==
    {Some([sql_filters_exclude |-> e, sql_filters_allow |-> a]) :
        e \in {None} \cup {Some(l) : l \in PairRuleLists},
        a \in {None} \cup {Some(l) : l \in PairRuleLists}}

\* What FilterConfig answers in a dimension.
ConfigAnswer(fc, dim, arg) ==
    CASE dim = "database" -> FilterConfig_should_exclude_database(fc, arg)
      [] dim = "table" -> FilterConfig_should_exclude_table(fc, arg)
      [] dim = "column_name" -> FilterConfig_should_exclude_column(fc, arg)
      [] dim = "column_value" -> FilterConfig_should_exclude_value(fc, arg)

Decision(fc, dim, arg) ==
    [fn |-> dim, arg |-> arg, sql |-> SqlAnswer(fc, dim, arg), cfg |-> ConfigAnswer(fc, dim, arg)]

\* ClickhouseExecutor::with_global_filters for the second configuration
ConstructOther ==
    /\ IsNotBuilt(other_config)
    /\ other_config' = FilterConfig_with_global_filters(other_filters)
    /\ UNCHANGED <<global_filters, runVars, filter_config, query, scrubVars, typeVars, submitVars,
                   other_filters, other_query, agentVars, discVars>>

\* The same should_exclude_* call on both policies, once they are built.
AskBoth ==
    /\ filter_config.ok
    /\ other_config.ok
    /\ query = NoQuery
    /\ \E dim \in Dimensions, c \in Candidates :
           /\ query' = Decision(filter_config.val, dim, c)
           /\ other_query' = Decision(other_config.val, dim, c)
    /\ UNCHANGED <<global_filters, runVars, filter_config, scrubVars, typeVars, submitVars,
                   other_filters, other_config, agentVars, discVars>>

PairInit ==
    /\ global_filters \in PairConfigs
    /\ filter_config = NotBuilt
    /\ query = NoQuery
    /\ ScrubIdle
    /\ TypeIdle
    /\ SubmitIdle
    /\ other_filters \in PairConfigs
    /\ other_config = NotBuilt
    /\ other_query = NoQuery
    /\ AgentIdle
    /\ RunIdle
    /\ DiscIdle

PairNext == Construct \/ ConstructOther \/ AskBoth

SpecPair == PairInit /\ [][PairNext]_vars

\* The patterns of a direction's rule blocks in a dimension, block after block.
RECURSIVE PatternList(_, _)
PatternList(rules, dim) ==
    IF rules = <<>> THEN <<>>
    ELSE RulesOf(FieldOf(Head(rules), dim)) \o PatternList(Tail(rules), dim)

Times(list, pattern) == Cardinality({k \in 1..Len(list) : list[k] = pattern})

\* One list is the other with its elements in another order.
Permuted(list, other) ==
    /\ Len(list) = Len(other)
    /\ \A k \in 1..Len(list) : Times(list, list[k]) = Times(other, list[k])

\* The second configuration is the first with its rule blocks or the patterns
\* in them in another order, or with patterns moved between the blocks of a
\* direction, dimension by dimension.
Rearranged ==
    \A dim \in Dimensions :
        /\ Permuted(PatternList(RulesOf(Unwrap(global_filters).sql_filters_exclude), dim),
                    PatternList(RulesOf(Unwrap(other_filters).sql_filters_exclude), dim))
        /\ Permuted(PatternList(RulesOf(Unwrap(global_filters).sql_filters_allow), dim),
                    PatternList(RulesOf(Unwrap(other_filters).sql_filters_allow), dim))

AskedBoth == query.fn \in Dimensions /\ other_query.fn = query.fn

\* C28: a configuration and a rearrangement of it (rule blocks permuted,
\* patterns permuted inside a block, patterns moved between blocks of one
\* direction and dimension) give the same decision for every candidate in
\* every dimension.
C28_BlocksAreFlattened ==
    (AskedBoth /\ Rearranged)
    => (query.sql = other_query.sql /\ query.cfg = other_query.cfg)

C28_Witness ==
    /\ AskedBoth
    /\ Rearranged
    /\ global_filters # other_filters
    /\ Unwrap(global_filters).sql_filters_exclude = Some(<<BlockA>>)
    /\ Unwrap(other_filters).sql_filters_exclude = Some(<<BlockA2, BlockA1>>)
    /\ query.fn = "database"
    /\ query.arg = NamePQ
    /\ Unwrap(query.sql) = TRUE
    /\ query.sql = other_query.sql

\* The two configurations hold the same patterns in the dimension, direction
\* by direction.
AgreeOn(dim) ==
    /\ AllowPatterns(global_filters, dim) = AllowPatterns(other_filters, dim)
    /\ ExcludePatterns(global_filters, dim) = ExcludePatterns(other_filters, dim)

\* C29: two policies whose configurations hold the same patterns in a
\* dimension give the same decision in that dimension, whatever patterns they
\* hold in the other three.
C29_DimensionsIndependent ==
    (AskedBoth /\ AgreeOn(query.fn))
    => (query.sql = other_query.sql /\ query.cfg = other_query.cfg)

C29_Witness ==
    /\ AskedBoth
    /\ query.fn = "column_value"
    /\ AgreeOn("column_value")
    /\ \A dim \in Dimensions \ {"column_value"} : ~AgreeOn(dim)
    /\ Unwrap(query.sql) = FALSE
    /\ Excluded(other_filters, "table", query.arg)
    /\ other_query.sql = query.sql


\* A built-in name was asked about in a dimension other than the database one.
BuiltinAskedBelow ==
    /\ query.fn \in Dimensions \ {"database"}
    /\ query.arg \in Builtins

\* C30: a table, a column name or a value that is system, INFORMATION_SCHEMA
\* or information_schema is excluded exactly when the configured patterns of
\* its own dimension exclude it; the built-in exclusions do not reach it.
C30_BuiltinsOnlyForDatabases ==
    BuiltinAskedBelow => query.cfg = Excluded(global_filters, query.fn, query.arg)

C30_Witness ==
    /\ BuiltinAskedBelow
    /\ query.fn = "table"
    /\ query.arg = information_schema
    /\ IsSome(global_filters)
    /\ ExcludePatterns(global_filters, "table") # {}
    /\ FilterConfig_should_exclude_database(filter_config.val, query.arg)
    /\ query.cfg = FALSE

\* The tables of the listing of db that are not excluded and whose schema was
\* built to the end, in the order of the listing.
KeptTables(db) ==
    SelectSeq(store[db], LAMBDA t : ~TableExcluded(t) /\ Succeeded("count", db, t))

\* The (database, table) pairs of the store in listing order: the databases as
\* SHOW DATABASES lists them, the tables of each as SHOW TABLES lists them.
RECURSIVE ListingOrder(_)
ListingOrder(dbs) ==
    IF dbs = <<>> THEN <<>>
    ELSE (IF DatabaseExcluded(Head(dbs)) THEN <<>>
          ELSE [i \in 1..Len(KeptTables(Head(dbs))) |->
                   [database |-> Head(dbs), table |-> KeptTables(Head(dbs))[i]]])
         \o ListingOrder(Tail(dbs))

ReturnedOrder ==
    [i \in 1..Len(ReturnedSchemas) |->
        [database |-> ReturnedSchemas[i].database, table |-> ReturnedSchemas[i].table]]

\* The tasks of the last database completed in the reverse of the order they
\* were spawned in, and both built their schema.
CompletedOutOfOrder ==
    /\ Len(finished) = 2
    /\ finished[1] > finished[2]
    /\ \A i \in 1..2 : Unwrap(tasks[i].outcome).ok

\* C31: the sequence discover_schemas returns follows the listing order of the
\* store: databases in the order of the database listing, within a database
\* the tables in the order of the table listing, less the excluded and the
\* failed ones, whatever the order in which the per-table tasks completed.
C31_ReturnedInListingOrder ==
    Returned => ReturnedOrder = ListingOrder(StoreDatabases)

C31_Witness ==
    /\ Returned
    /\ CompletedOutOfOrder
    /\ Len(ReturnedSchemas) >= 3
    /\ ReturnedOrder = ListingOrder(StoreDatabases)

\* The datasources whose discovery ended at connect(): the errors of the
\* round-trip query.
RoundTripFailures ==
    {k \in 1..Len(outcomes) :
        /\ ~outcomes[k].ok
        /\ Len(outcomes[k].err) = 2
        /\ outcomes[k].err[2] \in {"network error", "bad response"}}

\* C32: connect() reports a failed round trip as a connection failure: every
\* error discover_datasource returns from connect() is a ConnectionError.
C32_FailedRoundTripIsConnectionError ==
    \A k \in RoundTripFailures : outcomes[k].err[1] = "ConnectionError"

\* The steps of discover_datasource in the order of its body.
DatasourceSteps ==
    <<"add_datasource", "create_executor", "connect", "discover_schemas", "submit_schemas">>

StepNumber(name) == CHOOSE n \in 1..Len(DatasourceSteps) : DatasourceSteps[n] = name

\* steps[i] is the first step of a datasource: nothing was taken before it, or
\* the step before it failed or was the last of its datasource.
StartsDatasource(i) ==
    \/ i = 1
    \/ ~steps[i - 1].ok
    \/ steps[i - 1].step = "submit_schemas"

SubmitSteps == {i \in 1..Len(steps) : steps[i].step = "submit_schemas"}

\* C33: discover_datasource takes its steps in the order add_datasource,
\* executor creation, connect, discover_schemas, submit_schemas and ends at
\* the first that fails: discover_schemas follows a successful connect only,
\* submit_schemas a successful discover_schemas only, and what it submits is
\* the datasource's name with the schemas discover_schemas returned.
C33_StepsInOrderUntilFailure ==
    /\ \A i \in 1..Len(steps) :
           IF StartsDatasource(i)
           THEN steps[i].step = "add_datasource"
           ELSE /\ steps[i - 1].ok
                /\ steps[i].datasource = steps[i - 1].datasource
                /\ StepNumber(steps[i].step) = StepNumber(steps[i - 1].step) + 1
    /\ \A i \in 1..Len(steps) :
           /\ steps[i].step = "discover_schemas"
                  => i > 1 /\ steps[i - 1].step = "connect" /\ steps[i - 1].ok
           /\ steps[i].step = "submit_schemas"
                  => /\ i > 2
                     /\ steps[i - 1].step = "discover_schemas" /\ steps[i - 1].ok
                     /\ steps[i - 2].step = "connect" /\ steps[i - 2].ok
    /\ Len(posted) = Cardinality(SubmitSteps)
    /\ (steps # <<>> /\ steps[Len(steps)].step = "submit_schemas")
           => /\ IsSome(ds_schemas)
              /\ posted[Len(posted)].schemas = Unwrap(ds_schemas)
              /\ posted[Len(posted)].datasource_name = steps[Len(steps)].datasource

C33_Witness ==
    /\ Len(posted) = 2
    /\ posted[1].schemas # <<>>
    /\ posted[2].schemas = <<>>
    /\ \E i \in 1..Len(steps) : steps[i].step = "connect" /\ ~steps[i].ok
    /\ steps[Len(steps)].step = "submit_schemas"

\* process_next has returned, and Agent::run takes the given arm for it.
ReturnedFor(arm) == pc = "returned" /\ IsSome(ret) /\ run_arm(Unwrap(ret)) = arm

\* C34: Agent::run never ends: after every outcome of process_next, a
\* success, an empty queue or any other error, the loop comes back to the
\* acquire, and from there an acquire is attempted.
C34_AlwaysAcquiresAgain ==
    /\ \A arm \in {"ok", "warn", "error"} :
           ReturnedFor(arm) ~> (pc = "idle" /\ handled = Some(arm))
    /\ (pc = "idle") ~> (pc # "idle")
    /\ []<>(pc = "idle")

C34_Witness ==
    /\ handled = Some("error")
    /\ pc = "returned"
    /\ IsSome(ret)
    /\ Unwrap(ret).ok

\* How far process_next has come.
Stage(at) ==
    CASE at = "idle" -> 0
      [] at \in {"acquired", "query_acquired"} -> 1
      [] at \in {"executing", "query_executing"} -> 2
      [] at \in {"processed", "query_processed"} -> 3
      [] at = "returned" -> 4

\* One step of process_next: it moves on, keeps the task it acquired and the
\* rows it fetched, and adds at most one post to those sent.
OneWayStep ==
    /\ Stage(pc') > Stage(pc)
    /\ IsSome(request) => request' = request
    /\ IsSome(fetched) => fetched' = fetched
    /\ \/ sent' = sent
       \/ /\ Len(sent') = Len(sent) + 1
          /\ SubSeq(sent', 1, Len(sent)) = sent

ResultsRefused ==
    /\ Len(sent) >= 1
    /\ sent[1].kind \in ResultKinds
    /\ sent[1].reply # "ok"

\* C35: one call of process_next acquires at most one task, executes at most
\* one query and, for an acquired task, makes exactly one submission: the
\* results if the processing succeeded, the error if it failed, never both;
\* when the server refuses the results nothing more is sent and the call
\* returns the failure.
C35_OneSubmissionPerCall ==
    /\ [][OneWayStep]_vars
    /\ [](/\ Len(sent) <= 1
          /\ (pc = "returned" /\ IsSome(request))
                 => /\ Len(sent) = 1
                    /\ sent[1].kind \in ResultKinds <=> result.ok
                    /\ sent[1].kind \in ErrorKinds <=> ~result.ok
          /\ ResultsRefused
                 => /\ pc = "returned"
                    /\ Len(sent) = 1
                    /\ ~Unwrap(ret).ok)

C35_Witness ==
    /\ ResultsRefused
    /\ pc = "returned"
    /\ sent[1].kind = "task_results"
    /\ sent[1].reply = "server_error"
    /\ IsSome(fetched)
    /\ Len(sent) = 1

\* The queries sent to the store so far, whatever it answered.
Issued == BagToSet(issued)

\* C36: discovery sends no query below an excluded level: no table listing
\* for a database the database decision excludes, the built-in ones included,
\* and no column enumeration, cardinality probe or row count for a table the
\* table decision excludes or a table of such a database.
C36_NoQueryBelowExcluded ==
    \A q \in Issued :
        /\ q.kind = "tables" => ~DatabaseExcluded(q.db)
        /\ q.kind \in {"columns", "probe", "count"}
               => ~DatabaseExcluded(q.db) /\ ~TableExcluded(q.table)

C36_Witness ==
    /\ Returned
    /\ \E db \in StoreDatabaseSet \ Builtins :
           /\ DatabaseExcluded(db)
           /\ TimesIssued("tables", db, <<>>) = 0
    /\ \E db \in StoreDatabaseSet : \E t \in StoreTableSet(db) :
           /\ TableExcluded(t)
           /\ TimesIssued("tables", db, <<>>) = 1
           /\ TimesIssued("columns", db, t) = 0
           /\ \E u \in StoreTableSet(db) : Succeeded("count", db, u)

\* C37: the tasks spawned for the tables of a database have all finished
\* before discover_tables returns: none is in flight when the tables of the
\* next database are listed or when discover_schemas returns.
C37_NoTaskOutlivesItsDatabase ==
    /\ InFlight # {} => dpc = "joining"
    /\ dpc # "joining" => joined = Len(tasks) /\ Len(finished) = Len(tasks)
    /\ Returned => \A i \in 1..Len(tasks) : IsSome(tasks[i].outcome)

C37_Witness ==
    /\ dpc = "listing"
    /\ Len(tasks) = 2
    /\ joined = 2
    /\ TaskFailed(1)
    /\ ~TaskFailed(2)
    /\ finished = <<2, 1>>
    /\ Len(table_schemas) = 1

\* An observation agent's query was answered with rows by the store.
SeriesFetched ==
    /\ pc \in {"query_processed", "returned"}
    /\ IsSome(acquire_request)
    /\ IsSome(fetched)

\* C38: the observation path is not scrubbed: under every policy the result
\* of processing a task is the rows the store returned, in the store's
\* order, and the records an observation agent submits are those rows.
C38_ObservationsNotScrubbed ==
    /\ SeriesFetched => result.ok /\ result.val = Unwrap(fetched)
    /\ \A i \in 1..Len(sent) :
           sent[i].kind = "task_results"
               => IsSome(fetched) /\ sent[i].records = Unwrap(fetched)

C38_Witness ==
    /\ SeriesFetched
    /\ pc = "returned"
    /\ ColumnExcluded(<<"t">>)
    /\ ColumnExcluded(<<"c", "n", "t">>)
    /\ Len(Unwrap(fetched)) = 2
    /\ sent[1].kind = "task_results"
    /\ sent[1].records = Unwrap(fetched)
    /\ sent[1].reply = "ok"

\* The store lists the table in the database, the table is not excluded, and
\* every one of its columns is excluded by name.
AllColumnsExcluded(db, table) ==
    /\ ~DatabaseExcluded(db)
    /\ table \in StoreTableSet(db)
    /\ ~TableExcluded(table)
    /\ \A name \in StoreColumnNames(table) : ColumnExcluded(name)

\* The schema of the table among those returned, with no column and the row count.
ReturnedWithoutColumns(db, table) ==
    \E i \in 1..Len(ReturnedSchemas) :
        /\ ReturnedSchemas[i].database = db
        /\ ReturnedSchemas[i].table = table
        /\ DOMAIN ReturnedSchemas[i].columns = {}
        /\ ReturnedSchemas[i].row_count = 5

\* C39: a table that is not excluded and whose columns are all excluded by
\* name is reported all the same: when its column enumeration and its row
\* count succeeded, the returned schemas hold it once, with an empty columns
\* map and its row count, and no probe was sent for it.
C39_TableWithoutColumnsReported ==
    Returned =>
        \A db \in StoreDatabaseSet : \A table \in StoreTableSet(db) :
            (/\ AllColumnsExcluded(db, table)
             /\ Succeeded("columns", db, table)
             /\ Succeeded("count", db, table))
                => /\ ReturnedWithoutColumns(db, table)
                   /\ TimesReturned(db, table) = 1
                   /\ \A q \in Probes : ~(q.db = db /\ q.table = table)

C39_Witness ==
    /\ Returned
    /\ AllColumnsExcluded(NameQ, NamePQ)
    /\ ~AllColumnsExcluded(NameQ, NamePS)
    /\ Succeeded("count", NameQ, NamePQ)
    /\ ReturnedWithoutColumns(NameQ, NamePQ)

====
